---- MODULE Spec2Model ----
(***************************************************************************)
(* GehChat backend: the IRC bridge session (irc_bridge.py / main.py), the  *)
(* client command handlers (message_handlers.py) and the pairwise session  *)
(* key store (encryption_service.py).                                      *)
(*                                                                         *)
(* The backend runs on one asyncio event loop.  An action of this module   *)
(* is the code one task runs between two scheduling points (await).  A     *)
(* bridge has two kinds of task: the handler task of its websocket         *)
(* (websocket_endpoint) and the IRC reader tasks connect_to_irc creates.   *)
(***************************************************************************)
EXTENDS Integers, Sequences, FiniteSets, TLC

\* ------------------------------------------------------------------ bounds
MaxSockets == 3   \* sockets created (calls of socket.socket() that return)
MaxKeys == 2      \* the values os.urandom(32) returns are 1..MaxKeys
MaxText == 2      \* characters of a message given to encrypt_message

\* Python's None for a socket or task reference (sockets and tasks are
\* numbered from 1).
None == 0

\* The client connections (the keys of main.bridges).
Sessions == {"ws1", "ws2"}

\* ------------------------------------------------------------------ strings
\* A Python str is a sequence of one-character strings.
Ord(c) ==
    CASE c = "_" -> 95
      [] c = "a" -> 97
      [] c = "b" -> 98
      [] c = "c" -> 99

\* x < y for str (lexicographic by code point, a proper prefix is smaller).
RECURSIVE StrLess(_, _)
StrLess(x, y) ==
    IF x = <<>> THEN y # <<>>
    ELSE IF y = <<>> THEN FALSE
    ELSE IF Head(x) = Head(y) THEN StrLess(Tail(x), Tail(y))
    ELSE Ord(Head(x)) < Ord(Head(y))

StartsWith(s, p) ==
    Len(p) <= Len(s) /\ SubSeq(s, 1, Len(p)) = p

EndsWith(s, p) ==
    Len(p) <= Len(s) /\ SubSeq(s, Len(s) - Len(p) + 1, Len(s)) = p

\* The nicknames clients use ("a", "a_b", "c").
Nicknames == { <<"a">>, <<"a", "_", "b">>, <<"c">> }

\* bool(x) of an optional str: None and "" are both false; both are <<>> here.
NoNick == <<>>
Truthy(x) == x # NoNick

\* ---------------------------------------------------------------- key store
\* sorted([user1, user2])
Sorted2(user1, user2) ==
    IF StrLess(user2, user1) THEN <<user2, user1>> ELSE <<user1, user2>>

\* A key name that keeps the order of the arguments.
UnsortedKeyName(user1, user2) == user1 \o <<"_">> \o user2

\* f"{users[0]}_{users[1]}"
SessionKeyName(user1, user2) ==
    LET users == Sorted2(user1, user2)
    IN users[1] \o <<"_">> \o users[2]

\* register_user: the set of Frontend users afterwards.
RegisterUser(fu, nickname) == fu \cup {nickname}

\* An establish_session that always reports a new key.
AlwaysReturnsTrue(keys, user1, user2) == TRUE

\* establish_session: its return value.
EstablishReturns(keys, user1, user2) ==
    SessionKeyName(user1, user2) \notin DOMAIN keys

\* An establish_session that stores a key whether or not one exists.
OverwriteSession(keys, user1, user2, fresh) ==
    (SessionKeyName(user1, user2) :> fresh) @@ keys

\* establish_session: session_keys afterwards; fresh is os.urandom(32).
EstablishSession(keys, user1, user2, fresh) ==
    LET session_key == SessionKeyName(user1, user2)
    IN IF session_key \notin DOMAIN keys
       THEN (session_key :> fresh) @@ keys
       ELSE keys

\* cleanup_session: the names it removes.
KeysToRemove(keys, user) ==
    { key \in DOMAIN keys :
        StartsWith(key, user \o <<"_">>) \/ EndsWith(key, <<"_">> \o user) }

\* A cleanup that removes the names that start with the user's and no other.
RemovesPrefixOnly(keys, user) ==
    [key \in { k \in DOMAIN keys : ~StartsWith(k, user \o <<"_">>) } |-> keys[key]]

\* cleanup_session: session_keys afterwards.
CleanupKeys(keys, user) ==
    [key \in (DOMAIN keys) \ KeysToRemove(keys, user) |-> keys[key]]

\* cleanup_session: frontend_users afterwards.
CleanupUsers(fu, user) == fu \ {user}

\* get_unencrypted_frontend_users (a list in set-iteration order; a set here).
GetUnencryptedFrontendUsers(fu, keys, for_user) ==
    { other_user \in fu :
        /\ other_user # for_user
        /\ SessionKeyName(for_user, other_user) \notin DOMAIN keys }

\* add_pending_session
AddPendingSession(p, user, other_user) ==
    LET old == IF user \in DOMAIN p THEN p[user] ELSE {}
    IN (user :> (old \cup {other_user})) @@ p

\* A mark_session_confirmed that takes the confirming user out of the other
\* user's set.
ConfirmsForCounterpart(p, user, other_user) ==
    LET old == IF other_user \in DOMAIN p THEN p[other_user] ELSE {}
    IN (other_user :> (old \ {user})) @@ p

\* mark_session_confirmed
MarkSessionConfirmed(p, user, other_user) ==
    LET old == IF user \in DOMAIN p THEN p[user] ELSE {}
    IN (user :> (old \ {other_user})) @@ p

\* The loop of _setup_encryption_for_user over other_frontend_users.
RECURSIVE AddPendingBoth(_, _, _)
AddPendingBoth(p, nick, others) ==
    IF others = {} THEN p
    ELSE LET o == CHOOSE x \in others : TRUE
         IN AddPendingBoth(
                AddPendingSession(AddPendingSession(p, nick, o), o, nick),
                nick, others \ {o})

\* ------------------------------------------------------------------- state
VARIABLES
    bridges,            \* main.bridges: the websockets that have a bridge
    hpc,                \* where each websocket's handler task stands
    hlocal,             \* the handler's local variables across an await
    irc_socket,         \* IRCBridge.irc_socket (None or a socket)
    connected,          \* IRCBridge.connected
    reader_task,        \* IRCBridge.reader_task (None or a task)
    nickname,           \* IRCBridge.nickname
    is_frontend_user,   \* IRCBridge.is_frontend_user
    conn_params,        \* IRCBridge.server, IRCBridge.port, IRCBridge.channel
    sockets,            \* every socket object created, by number
    tasks,              \* every reader task created, by number
    session_keys,       \* SignalProtocolService.session_keys
    frontend_users,     \* SignalProtocolService.frontend_users
    pending_sessions,   \* SignalProtocolService.pending_sessions
    events,             \* per client: what the command being handled has sent so far
    received,           \* per client: the last session_key event it was sent
    last,               \* the command that returned in the step just taken
    rlast,              \* what a reader task did in the step just taken
    klog                \* the key-store operation of the step just taken

bridgeVars == <<bridges, hpc, hlocal, irc_socket, connected, reader_task,
                nickname, is_frontend_user, conn_params, sockets, tasks>>
storeVars == <<session_keys, frontend_users, pending_sessions>>
histVars == <<events, received, last, rlast, klog>>
vars == <<bridgeVars, storeVars, histVars>>

\* ------------------------------------------------------------ IRC and events
\* str literals
Str_Goodbye == <<"G", "o", "o", "d", "b", "y", "e">>
Str_srv == <<"s", "r", "v">>

\* config.DEFAULT_IRC_CONFIG.channel ("#vorest")
Channel == <<"#", "v", "o", "r", "e", "s", "t">>

\* config.DEFAULT_IRC_CONFIG.server ("slaugh.pl")
Str_slaugh_pl == <<"s", "l", "a", "u", "g", "h", ".", "p", "l">>

\* get_irc_config(): the server-side configuration (it is frozen).
IrcConfig == [server |-> Str_slaugh_pl, port |-> 6667, channel |-> Channel]

\* The server, port and channel fields of a bridge.
Params(server, port, channel) ==
    [server |-> server, port |-> port, channel |-> channel]

\* dict.get(key, default) of a client payload.
GetOr(data, key, default) ==
    IF key \in DOMAIN data THEN data[key] ELSE default

\* An IRC protocol line the bridge writes; arg is the tuple of the strings
\* the line is formatted from.
Line(cmd, arg) == [cmd |-> cmd, arg |-> arg]

\* A healthy socket: open, TCP connection established and not lost.
Healthy(sk) == sk.state = "open" /\ sk.tcp /\ ~sk.broken

\* The sockets as a step of a task finds them, with the (still empty) list
\* of the socket.send calls the step makes.
Net(socks) == [socks |-> socks, out |-> <<>>]

\* send_irc_raw.  Nothing happens when the bridge has no socket; otherwise
\* socket.send is called, and an exception it raises (socket not connected,
\* connection lost, descriptor closed) is swallowed: ok tells whether the
\* line went out.  A socket object keeps the first two lines that went out
\* on it.
SendIrcRaw(net, k, line) ==
    IF k = None THEN net
    ELSE [socks |-> [net.socks EXCEPT ![k].first =
                        IF Len(@) < 2 /\ Healthy(net.socks[k])
                        THEN Append(@, line) ELSE @],
          out |-> Append(net.out, [sock |-> k, line |-> line,
                                   ok |-> Healthy(net.socks[k])])]

\* socket.close(): the descriptor is released and with it the connection.
CloseSocket(net, k) ==
    [net EXCEPT !.socks[k].state = "closed", !.socks[k].tcp = FALSE,
                !.socks[k].broken = FALSE]

\* The handshake with its two lines in the other order.
UserThenNick(net, k, nick) ==
    SendIrcRaw(SendIrcRaw(net, k, Line("USER", <<nick, nick>>)),
               k, Line("NICK", <<nick>>))

\* _send_irc_handshake: "NICK {nickname}", then "USER {nickname} 0 * :{nickname}"
SendIrcHandshake(net, k, nick) ==
    SendIrcRaw(SendIrcRaw(net, k, Line("NICK", <<nick>>)),
               k, Line("USER", <<nick, nick>>))

\* An event handed to websocket.send_json.
Event(type, arg) == [type |-> type, arg |-> arg]

\* send_to_client: the event log afterwards (a failing send_json is
\* swallowed and changes nothing else).
SendToClient(ev, e) == Append(ev, e)

\* A socket object and a task object.
\* peer is the address given to socket.connect().
NewSocket(s, tcp, peer) ==
    [owner |-> s, state |-> "open", tcp |-> tcp, broken |-> FALSE, first |-> <<>>,
     peer |-> peer]

\* buffer is the local variable of _read_from_irc; raw is the bytes, as recv
\* returned them, of what the buffer holds.
NewTask(s) ==
    [sess |-> s, pc |-> "check", buffer |-> <<>>, raw |-> <<>>]

NoSocket ==
    [owner |-> "", state |-> "none", tcp |-> FALSE, broken |-> FALSE, first |-> <<>>,
     peer |-> <<>>]

NoTask ==
    [sess |-> "", pc |-> "none", buffer |-> <<>>, raw |-> <<>>]

SocketAt(socks, k) == IF k = None THEN NoSocket ELSE socks[k]
TaskAt(tk, t) == IF t = None THEN NoTask ELSE tk[t]

\* What a command's snapshots record of a bridge and its surroundings.
View(s) ==
    [irc_socket |-> irc_socket[s], connected |-> connected[s],
     reader_task |-> reader_task[s], nickname |-> nickname[s],
     is_frontend_user |-> is_frontend_user[s], params |-> conn_params[s],
     sock |-> SocketAt(sockets, irc_socket[s]),
     task |-> TaskAt(tasks, reader_task[s]),
     nsockets |-> Len(sockets), ntasks |-> Len(tasks)]

NoView ==
    [irc_socket |-> None, connected |-> FALSE, reader_task |-> None,
     nickname |-> NoNick, is_frontend_user |-> FALSE,
     params |-> Params(<<>>, 0, <<>>),
     sock |-> NoSocket, task |-> NoTask, nsockets |-> 0, ntasks |-> 0]

\* The record of a command at its return (or, with ret "sending", where
\* encryption_session_ready is suspended): the client, the command, its
\* result and argument, the snapshots at its start and at its return, the
\* socket and the task the bridge had at the start as they are at the return,
\* the events the command sent and the socket.send calls of its last step.
Done(s, cmd, ret, arg, pre, post, oldsock, oldtask, sent, wrote) ==
    [sess |-> s, cmd |-> cmd, ret |-> ret, arg |-> arg, pre |-> pre, post |-> post,
     oldsock |-> oldsock, oldtask |-> oldtask, sent |-> sent, wrote |-> wrote]

NoCmd == Done("", "none", "none", <<>>, NoView, NoView, NoSocket, NoTask, <<>>, <<>>)

\* The record of a reader step that received data or went on with its
\* buffer: the task, the bytes recv returned, the lines it handed to
\* _process_irc_line, the socket.send calls and the events sent.
Read(t, data, got, wrote, sent) ==
    [task |-> t, data |-> data, got |-> got, wrote |-> wrote, sent |-> sent]

NoRead == Read(None, <<>>, <<>>, <<>>, <<>>)

\* The record of a key-store operation: the client whose handler made it,
\* the operation, its arguments and result, session_keys before and after.
KeyOp(s, op, user1, user2, ret, before, after) ==
    [sess |-> s, op |-> op, user1 |-> user1, user2 |-> user2, ret |-> ret,
     before |-> before, after |-> after,
     prev |-> [op |-> "none", user1 |-> NoNick, user2 |-> NoNick, ret |-> FALSE]]

NoOp == KeyOp("", "none", NoNick, NoNick, FALSE, <<>>, <<>>)

\* What of a key-store operation an establish_session remembers that is
\* called in the next step, and that call's record.
Brief(op) == [op |-> op.op, user1 |-> op.user1, user2 |-> op.user2, ret |-> op.ret]

After(prev, op) == [op EXCEPT !.prev = Brief(prev)]

\* base64.b64encode(b).decode("utf-8")
B64Encode(b) == <<"b64", b>>

\* A session_key event as the client keeps it: the nickname its bridge had,
\* the counterpart and the key.  The client forgets it when cleanup_session
\* is called for one of the two users.
KeyEvent(nick, with, key) ==
    [got |-> TRUE, nick |-> nick, with |-> with, key |-> key]

NoKeyEvent ==
    [got |-> FALSE, nick |-> NoNick, with |-> NoNick, key |-> B64Encode(None)]

\* The handler's local variables when it is not suspended inside a command.
NoLocal == [nickname |-> NoNick, users |-> {}, other |-> NoNick, pre |-> NoView]

\* -------------------------------------------------------------------- Init
Init ==
    /\ bridges = {}
    /\ hpc = [s \in Sessions |-> "none"]
    /\ hlocal = [s \in Sessions |-> NoLocal]
    /\ irc_socket = [s \in Sessions |-> None]
    /\ connected = [s \in Sessions |-> FALSE]
    /\ reader_task = [s \in Sessions |-> None]
    /\ nickname = [s \in Sessions |-> NoNick]
    /\ is_frontend_user = [s \in Sessions |-> FALSE]
    /\ conn_params = [s \in Sessions |->
                         Params(IrcConfig.server, IrcConfig.port, IrcConfig.channel)]
    /\ sockets = <<>>
    /\ tasks = <<>>
    /\ session_keys = <<>>
    /\ frontend_users = {}
    /\ pending_sessions = <<>>
    /\ events = [s \in Sessions |-> <<>>]
    /\ received = [s \in Sessions |-> NoKeyEvent]
    /\ last = NoCmd
    /\ rlast = NoRead
    /\ klog = NoOp

\* ------------------------------------------------------- websocket_endpoint
\* accept(), the bridge is created and stored, the "connected" greeting is
\* sent.  The greeting is sent outside the try block: when send_json raises,
\* the endpoint ends without its finally block.
Accept(s, ok) ==
    /\ hpc[s] = "none"
    /\ bridges' = bridges \cup {s}
    /\ hpc' = [hpc EXCEPT ![s] = IF ok THEN "idle" ELSE "crashed"]
    /\ UNCHANGED <<hlocal, irc_socket, connected, reader_task, nickname,
                   is_frontend_user, conn_params, sockets, tasks, storeVars, events, received>>
    /\ last' = Done(s, "accept", IF ok THEN "true" ELSE "false", <<>>,
                    View(s), View(s)', NoSocket, NoTask,
                    IF ok THEN <<Event("connected", <<>>)>> ELSE <<>>, <<>>)
    /\ rlast' = NoRead
    /\ klog' = NoOp

\* ------------------------------------------------------------ connect_to_irc
\* _create_irc_socket and what follows it in connect_to_irc.  outcome is what
\* the network does: "nosock" (socket.socket() raises), "refused" (connect()
\* raises or times out) or "ok".  ev is what the command has sent so far, pre
\* the snapshot taken when the command began.  The server and port given to
\* connect() are connect_to_irc's arguments, which are what it stored in the
\* bridge when it began (nothing else assigns those fields).
CreateSocketAndGreet(s, nick, outcome, ev, pre) ==
    LET k == Len(sockets) + 1
        t == Len(tasks) + 1
        peer == <<conn_params'[s].server, conn_params'[s].port>>
        net == IF outcome = "ok"
               THEN SendIrcHandshake(Net(Append(sockets, NewSocket(s, TRUE, peer))),
                                     k, nick)
               ELSE IF outcome = "refused"
               THEN Net(Append(sockets, NewSocket(s, FALSE, peer)))
               ELSE Net(sockets)
        sent == SendToClient(ev, Event(IF outcome = "ok" THEN "system" ELSE "error", <<>>))
    IN
    /\ outcome = "nosock" \/ Len(sockets) < MaxSockets
    /\ sockets' = net.socks
    /\ \/ /\ outcome = "nosock"
          /\ UNCHANGED <<irc_socket, connected, tasks, reader_task>>
       \/ /\ outcome = "refused"
          /\ irc_socket' = [irc_socket EXCEPT ![s] = k]
          /\ UNCHANGED <<connected, tasks, reader_task>>
       \/ /\ outcome = "ok"
          /\ irc_socket' = [irc_socket EXCEPT ![s] = k]
          /\ connected' = [connected EXCEPT ![s] = TRUE]
          /\ tasks' = Append(tasks, NewTask(s))
          /\ reader_task' = [reader_task EXCEPT ![s] = t]
    /\ events' = [events EXCEPT ![s] = <<>>]
    /\ UNCHANGED received
    /\ hpc' = [hpc EXCEPT ![s] = "idle"]
    /\ last' = Done(s, "connect", IF outcome = "ok" THEN "true" ELSE "false", nick,
                    pre, View(s)', SocketAt(sockets', pre.irc_socket),
                    TaskAt(tasks', pre.reader_task), sent, net.out)
    /\ rlast' = NoRead
    /\ klog' = NoOp

\* connect_to_irc up to its first await: the connection parameters are
\* stored, a Frontend user is registered; when there are other Frontend users
\* without a session key the setup_encryption event is sent and the handler
\* is suspended in that send.
ConnectToIrc(s, server, port, channel, nick, fe, outcome) ==
    LET fu == IF fe THEN RegisterUser(frontend_users, nick) ELSE frontend_users
        others == IF fe THEN GetUnencryptedFrontendUsers(fu, session_keys, nick)
                  ELSE {}
    IN
    /\ hpc[s] = "idle"
    /\ nickname' = [nickname EXCEPT ![s] = nick]
    /\ is_frontend_user' = [is_frontend_user EXCEPT ![s] = fe]
    /\ conn_params' = [conn_params EXCEPT ![s] = Params(server, port, channel)]
    /\ frontend_users' = fu
    /\ UNCHANGED <<bridges, session_keys>>
    /\ IF others # {}
       THEN /\ events' = [events EXCEPT ![s] =
                            <<Event("setup_encryption", others)>>]
            /\ hpc' = [hpc EXCEPT ![s] = "conn_setup"]
            /\ hlocal' = [hlocal EXCEPT ![s] =
                            [nickname |-> nick, users |-> others, other |-> NoNick,
                             pre |-> View(s)]]
            /\ UNCHANGED <<pending_sessions, sockets, irc_socket, connected,
                           tasks, reader_task, received>>
            /\ last' = NoCmd
            /\ rlast' = NoRead
            /\ klog' = NoOp
       ELSE /\ UNCHANGED <<pending_sessions, hlocal>>
            /\ CreateSocketAndGreet(s, nick, outcome, <<>>, View(s))

\* str literal: the nickname of a connect payload that has none
Str_GehUser == <<"G", "e", "h", "U", "s", "e", "r">>

\* A connect that takes server, port and channel from the payload when the
\* payload has them.
ClientChosenArgs(data) ==
    [server |-> GetOr(data, "server", IrcConfig.server),
     port |-> GetOr(data, "port", IrcConfig.port),
     channel |-> GetOr(data, "channel", IrcConfig.channel),
     nickname |-> GetOr(data, "nickname", Str_GehUser),
     is_frontend_user |-> GetOr(data, "is_frontend_user", TRUE)]

\* handle_connect: the arguments it gives connect_to_irc for a payload.
ConnectArgs(data) ==
    [server |-> IrcConfig.server,
     port |-> IrcConfig.port,
     channel |-> IrcConfig.channel,
     nickname |-> GetOr(data, "nickname", Str_GehUser),
     is_frontend_user |-> GetOr(data, "is_frontend_user", TRUE)]

\* handle_connect
HandleConnect(s, data, outcome) ==
    LET a == ConnectArgs(data)
    IN ConnectToIrc(s, a.server, a.port, a.channel, a.nickname,
                    a.is_frontend_user, outcome)

\* The connect command with a payload of a nickname and the Frontend flag.
Connect(s, nick, fe, outcome) ==
    HandleConnect(s, [nickname |-> nick, is_frontend_user |-> fe], outcome)

\* connect_to_irc after the setup_encryption event was sent: the pending
\* sessions are marked, the socket is created.
ConnectResume(s, outcome) ==
    /\ hpc[s] = "conn_setup"
    /\ pending_sessions' =
           AddPendingBoth(pending_sessions, hlocal[s].nickname, hlocal[s].users)
    /\ hlocal' = [hlocal EXCEPT ![s] = NoLocal]
    /\ UNCHANGED <<bridges, nickname, is_frontend_user, conn_params, session_keys,
                   frontend_users>>
    /\ CreateSocketAndGreet(s, hlocal[s].nickname, outcome, events[s], hlocal[s].pre)

\* ---------------------------------------------------------------- disconnect
\* The socket closed first and "QUIT :Goodbye" written to it afterwards.
CloseAndQuit(net, k) ==
    IF k = None THEN net
    ELSE SendIrcRaw(CloseSocket(net, k), k, Line("QUIT", <<Str_Goodbye>>))

\* disconnect(): "QUIT :Goodbye" is written and the socket is closed.
QuitAndClose(net, k) ==
    IF k = None THEN net
    ELSE CloseSocket(SendIrcRaw(net, k, Line("QUIT", <<Str_Goodbye>>)), k)

\* disconnect(): reader_task.cancel().  The task ends when it is next
\* scheduled; cancelling a finished task does nothing.
CancelTask(tk, t) ==
    IF t = None \/ tk[t].pc = "done" THEN tk
    ELSE [tk EXCEPT ![t].pc = "cancelled"]

\* disconnect(), sending its event included; cmd is the caller.
BridgeDisconnect(s, cmd) ==
    LET net == QuitAndClose(Net(sockets), irc_socket[s])
    IN
    /\ sockets' = net.socks
    /\ connected' = [connected EXCEPT ![s] = FALSE]
    /\ irc_socket' = [irc_socket EXCEPT ![s] = None]
    /\ tasks' = CancelTask(tasks, reader_task[s])
    /\ UNCHANGED <<reader_task, nickname, is_frontend_user, conn_params, events>>
    /\ last' = Done(s, cmd, "none", <<>>, View(s), View(s)',
                    SocketAt(sockets', irc_socket[s]),
                    TaskAt(tasks', reader_task[s]),
                    <<Event("disconnected", <<>>)>>, net.out)
    /\ rlast' = NoRead

\* handle_disconnect: the key store is cleaned for a Frontend user, then
\* disconnect() runs.
Disconnect(s) ==
    LET cleans == Truthy(nickname[s]) /\ is_frontend_user[s]
    IN
    /\ hpc[s] = "idle"
    /\ session_keys' = IF cleans THEN CleanupKeys(session_keys, nickname[s])
                       ELSE session_keys
    /\ frontend_users' = IF cleans THEN CleanupUsers(frontend_users, nickname[s])
                         ELSE frontend_users
    /\ klog' = IF cleans
               THEN KeyOp(s, "cleanup_session", nickname[s], NoNick, FALSE,
                          session_keys, session_keys')
               ELSE NoOp
    /\ received' = IF cleans
                   THEN [c \in Sessions |->
                            IF nickname[s] \in {received[c].nick, received[c].with}
                            THEN NoKeyEvent ELSE received[c]]
                   ELSE received
    /\ BridgeDisconnect(s, "disconnect")
    /\ UNCHANGED <<bridges, hpc, hlocal, pending_sessions>>

\* The finally block of websocket_endpoint, entered when receive_text raises
\* (the client went away) or a handler raises: disconnect() runs.
Close(s) ==
    /\ hpc[s] = "idle"
    /\ BridgeDisconnect(s, "close")
    /\ hpc' = [hpc EXCEPT ![s] = "closing"]
    /\ klog' = NoOp
    /\ UNCHANGED <<bridges, hlocal, storeVars, received>>

\* The finally block after disconnect(): the bridge leaves main.bridges.
CloseFinish(s) ==
    /\ hpc[s] = "closing"
    /\ bridges' = bridges \ {s}
    /\ hpc' = [hpc EXCEPT ![s] = "gone"]
    /\ UNCHANGED <<hlocal, irc_socket, connected, reader_task, nickname,
                   is_frontend_user, conn_params, sockets, tasks, storeVars, events, received>>
    /\ last' = NoCmd
    /\ rlast' = NoRead
    /\ klog' = NoOp

\* -------------------------------------------------------------- handle_message
\* json.dumps of an encrypted payload: the payload's text in braces.
JsonDumps(x) == <<"{">> \o x \o <<"}">>

\* json.loads of what json.dumps wrote.
JsonLoads(x) == SubSeq(x, 2, Len(x) - 1)

\* A target that is relayed as the client wrote it.
KeepAt(target) == target

\* target with one leading "@" removed
StripAt(target) ==
    IF target # <<>> /\ Head(target) = "@" THEN Tail(target) ELSE target

\* A handler that relays whether or not the bridge is connected.
AlwaysRelays(s) == TRUE

\* handle_message goes on past its check of bridge.connected.
MayRelay(s) == connected[s]

\* An echo that is sent only when the line went out to IRC.
EchoWhenWritten(nick, target, content, is_private, is_encrypted, net) ==
    IF \A i \in DOMAIN net.out : net.out[i].ok
    THEN <<Event("message",
                 [sender |-> nick, target |-> target, content |-> content,
                  is_private |-> is_private, is_encrypted |-> is_encrypted])>>
    ELSE <<>>

\* handle_message: what it sends the client after send_irc_raw has returned
\* (net is what send_irc_raw did; it raises nothing and returns nothing, so
\* the echo is the same whatever became of the write).
EchoMessage(nick, target, content, is_private, is_encrypted, net) ==
    <<Event("message",
            [sender |-> nick, target |-> target, content |-> content,
             is_private |-> is_private, is_encrypted |-> is_encrypted])>>

\* handle_message: nothing when not connected; otherwise one PRIVMSG is
\* written and the message is echoed to the client.  data is the payload:
\* target, content, is_encrypted, encrypted_data (an envelope that is absent
\* or empty is <<>>: both are false in a condition).
Message(s, data) ==
    LET target == StripAt(GetOr(data, "target", conn_params[s].channel))
        content == GetOr(data, "content", <<>>)
        is_encrypted == GetOr(data, "is_encrypted", FALSE)
        encrypted_data == GetOr(data, "encrypted_data", <<>>)
        is_private == target # conn_params[s].channel
        text == IF is_encrypted /\ encrypted_data # <<>> /\ is_private
                THEN JsonDumps(encrypted_data)
                ELSE content
        net == IF MayRelay(s)
               THEN SendIrcRaw(Net(sockets), irc_socket[s],
                               Line("PRIVMSG", <<target, text>>))
               ELSE Net(sockets)
        sent == IF MayRelay(s)
                THEN EchoMessage(nickname[s], target, content, is_private,
                                 is_encrypted, net)
                ELSE <<>>
    IN
    /\ hpc[s] = "idle"
    /\ sockets' = net.socks
    /\ UNCHANGED <<bridges, hpc, hlocal, irc_socket, connected, reader_task,
                   nickname, is_frontend_user, conn_params, tasks, storeVars,
                   events, received>>
    /\ last' = Done(s, "message", "none", data, View(s), View(s)',
                    SocketAt(sockets', irc_socket[s]),
                    TaskAt(tasks', reader_task[s]), sent, net.out)
    /\ rlast' = NoRead
    /\ klog' = NoOp

\* ------------------------------------------------------ key-store handlers
\* A guard that does not look at the Frontend flag.
IgnoresFlag(s, other_user) ==
    Truthy(nickname[s]) /\ Truthy(other_user)

\* The guard of the three handlers: a nickname, a counterpart, and the
\* session is a Frontend user's.
MayUseKeys(s, other_user) ==
    Truthy(nickname[s]) /\ Truthy(other_user) /\ is_frontend_user[s]

\* session_keys.get(name): None when absent.
Get(keys, name) == IF name \in DOMAIN keys THEN keys[name] ELSE None

\* establish_session as a handler calls it: the store afterwards (os.urandom
\* is called when a key is created and not otherwise), the operation logged.
CallEstablishSession(s, user1, user2) ==
    /\ \E fresh \in (IF EstablishReturns(session_keys, user1, user2)
                      THEN 1..MaxKeys ELSE {None}) :
           session_keys' = EstablishSession(session_keys, user1, user2, fresh)
    /\ klog' = After(klog, KeyOp(s, "establish_session", user1, user2,
                                 EstablishReturns(session_keys, user1, user2),
                                 session_keys, session_keys'))

\* handle_establish_session
HandleEstablishSession(s, other_user) ==
    /\ hpc[s] = "idle"
    /\ IF MayUseKeys(s, other_user)
       THEN CallEstablishSession(s, nickname[s], other_user)
       ELSE UNCHANGED session_keys /\ klog' = NoOp
    /\ UNCHANGED <<bridgeVars, frontend_users, pending_sessions, events, received>>
    /\ last' = Done(s, "establish_session", "none", other_user, View(s), View(s)',
                    SocketAt(sockets, irc_socket[s]), TaskAt(tasks, reader_task[s]),
                    IF MayUseKeys(s, other_user)
                    THEN <<Event("session_established", other_user)>> ELSE <<>>,
                    <<>>)
    /\ rlast' = NoRead

\* handle_get_session_key
HandleGetSessionKey(s, from_user) ==
    LET session_key_name == SessionKeyName(from_user, nickname[s])
        session_key_bytes == Get(session_keys', session_key_name)
        sends == MayUseKeys(s, from_user) /\ session_key_bytes # None
    IN
    /\ hpc[s] = "idle"
    /\ IF MayUseKeys(s, from_user)
       THEN CallEstablishSession(s, from_user, nickname[s])
       ELSE UNCHANGED session_keys /\ klog' = NoOp
    /\ UNCHANGED <<bridgeVars, frontend_users, pending_sessions, events>>
    /\ received' = IF sends
                   THEN [received EXCEPT ![s] =
                            KeyEvent(nickname[s], from_user, B64Encode(session_key_bytes))]
                   ELSE received
    /\ last' = Done(s, "get_session_key", "none", from_user, View(s), View(s)',
                    SocketAt(sockets, irc_socket[s]), TaskAt(tasks, reader_task[s]),
                    IF sends
                    THEN <<Event("session_key",
                                 [from |-> from_user,
                                  key |-> B64Encode(session_key_bytes)])>>
                    ELSE <<>>,
                    <<>>)
    /\ rlast' = NoRead

\* handle_encryption_session_ready up to the end of its send: the handler is
\* suspended in the send when there is a key to send, and has returned
\* otherwise.
HandleEncryptionSessionReady(s, other_user) ==
    LET session_key_name == SessionKeyName(nickname[s], other_user)
        session_key_bytes == Get(session_keys', session_key_name)
        sends == MayUseKeys(s, other_user) /\ session_key_bytes # None
        sent == IF sends
                THEN <<Event("session_key",
                             [from |-> other_user,
                              key |-> B64Encode(session_key_bytes)])>>
                ELSE <<>>
    IN
    /\ hpc[s] = "idle"
    /\ IF MayUseKeys(s, other_user)
       THEN CallEstablishSession(s, nickname[s], other_user)
       ELSE UNCHANGED session_keys /\ klog' = NoOp
    /\ UNCHANGED <<bridges, irc_socket, connected, reader_task, nickname,
                   is_frontend_user, conn_params, sockets, tasks, frontend_users,
                   pending_sessions>>
    /\ received' = IF sends
                   THEN [received EXCEPT ![s] =
                            KeyEvent(nickname[s], other_user, B64Encode(session_key_bytes))]
                   ELSE received
    /\ rlast' = NoRead
    /\ IF sends
       THEN /\ hpc' = [hpc EXCEPT ![s] = "ready_sent"]
            /\ hlocal' = [hlocal EXCEPT ![s] =
                            [nickname |-> nickname[s], users |-> {},
                             other |-> other_user, pre |-> View(s)]]
            /\ events' = [events EXCEPT ![s] = sent]
            /\ last' = Done(s, "encryption_session_ready", "sending", other_user,
                            View(s), View(s)', SocketAt(sockets, irc_socket[s]),
                            TaskAt(tasks, reader_task[s]), sent, <<>>)
       ELSE /\ UNCHANGED <<hpc, hlocal, events>>
            /\ last' = Done(s, "encryption_session_ready", "none", other_user,
                            View(s), View(s)', SocketAt(sockets, irc_socket[s]),
                            TaskAt(tasks, reader_task[s]), sent, <<>>)

\* handle_encryption_session_ready after its send: the session is marked
\* confirmed.
ReadyResume(s) ==
    /\ hpc[s] = "ready_sent"
    /\ pending_sessions' =
           MarkSessionConfirmed(pending_sessions, nickname[s], hlocal[s].other)
    /\ hpc' = [hpc EXCEPT ![s] = "idle"]
    /\ hlocal' = [hlocal EXCEPT ![s] = NoLocal]
    /\ events' = [events EXCEPT ![s] = <<>>]
    /\ UNCHANGED <<bridges, irc_socket, connected, reader_task, nickname,
                   is_frontend_user, conn_params, sockets, tasks, session_keys, frontend_users,
                   received>>
    /\ last' = Done(s, "encryption_session_ready", "none", hlocal[s].other,
                    hlocal[s].pre, View(s)', SocketAt(sockets, irc_socket[s]),
                    TaskAt(tasks, reader_task[s]), events[s], <<>>)
    /\ rlast' = NoRead
    /\ klog' = NoOp

\* encrypt_message and decrypt_message as far as the key store goes: the
\* pair's key is looked up and the store is left alone; the result is None
\* when there is no key.
ApiCrypt(op, sender, recipient) ==
    /\ UNCHANGED <<bridgeVars, storeVars, events, received>>
    /\ last' = NoCmd
    /\ rlast' = NoRead
    /\ klog' = KeyOp("", op, sender, recipient,
                     SessionKeyName(sender, recipient) \in DOMAIN session_keys,
                     session_keys, session_keys')

\* ------------------------------------------- encrypt_message, decrypt_message
\* A message is the sequence of the code points of its characters, bytes are
\* a sequence of numbers 0..255.  The characters used: "h", U+00E9, U+20AC,
\* and the lone surrogate U+D800, which a str can hold and UTF-8 cannot encode.
Chars == {104, 233, 8364, 55296}

IsSurrogate(cp) == cp >= 55296 /\ cp <= 57343

\* Text: a str every character of which is a Unicode scalar value.
IsText(message) == \A i \in DOMAIN message : ~IsSurrogate(message[i])

RECURSIVE StrsUpTo(_)
StrsUpTo(n) ==
    IF n = 0 THEN { <<>> }
    ELSE StrsUpTo(n - 1) \cup
         { Append(m, c) : m \in { x \in StrsUpTo(n - 1) : Len(x) = n - 1 }, c \in Chars }

\* An optional result: a value, or None.
Value(x) == <<x>>
NoValue == <<>>

\* The outcome of a call that may raise.
Returns(x) == [ok |-> TRUE, val |-> x]
Raises == [ok |-> FALSE, val |-> <<>>]

\* The UTF-8 bytes of one character that is no surrogate.
Utf8Char(cp) ==
    IF cp < 128 THEN <<cp>>
    ELSE IF cp < 2048 THEN <<192 + (cp \div 64), 128 + (cp % 64)>>
    ELSE IF cp < 65536
    THEN <<224 + (cp \div 4096), 128 + ((cp \div 64) % 64), 128 + (cp % 64)>>
    ELSE <<240 + (cp \div 262144), 128 + ((cp \div 4096) % 64),
           128 + ((cp \div 64) % 64), 128 + (cp % 64)>>

\* message.encode("utf-8"): UnicodeEncodeError for a surrogate.
RECURSIVE Utf8Encode(_)
Utf8Encode(message) ==
    IF message = <<>> THEN Returns(<<>>)
    ELSE IF IsSurrogate(Head(message)) THEN Raises
    ELSE LET rest == Utf8Encode(Tail(message))
         IN IF rest.ok THEN Returns(Utf8Char(Head(message)) \o rest.val)
            ELSE Raises

IsContinuation(b) == b >= 128 /\ b <= 191

\* The first character of UTF-8 bytes: its code point and how many bytes it
\* takes, or n = 0 when the bytes do not start with a well-formed character.
Utf8First(b) ==
    LET b1 == b[1]
        ill == [cp |-> 0, n |-> 0]
    IN IF b1 < 128 THEN [cp |-> b1, n |-> 1]
       ELSE IF b1 >= 194 /\ b1 <= 223
       THEN IF Len(b) >= 2 /\ IsContinuation(b[2])
            THEN [cp |-> (b1 - 192) * 64 + (b[2] - 128), n |-> 2]
            ELSE ill
       ELSE IF b1 >= 224 /\ b1 <= 239
       THEN IF Len(b) >= 3 /\ IsContinuation(b[2]) /\ IsContinuation(b[3])
            THEN LET cp == (b1 - 224) * 4096 + (b[2] - 128) * 64 + (b[3] - 128)
                 IN IF cp >= 2048 /\ ~IsSurrogate(cp) THEN [cp |-> cp, n |-> 3]
                    ELSE ill
            ELSE ill
       ELSE IF b1 >= 240 /\ b1 <= 244
       THEN IF /\ Len(b) >= 4
               /\ IsContinuation(b[2]) /\ IsContinuation(b[3]) /\ IsContinuation(b[4])
            THEN LET cp == (b1 - 240) * 262144 + (b[2] - 128) * 4096
                           + (b[3] - 128) * 64 + (b[4] - 128)
                 IN IF cp >= 65536 /\ cp <= 1114111 THEN [cp |-> cp, n |-> 4]
                    ELSE ill
            ELSE ill
       ELSE ill

\* plaintext.decode("utf-8"): UnicodeDecodeError for bytes that are not UTF-8.
RECURSIVE Utf8Decode(_)
Utf8Decode(b) ==
    IF b = <<>> THEN Returns(<<>>)
    ELSE LET f == Utf8First(b)
         IN IF f.n = 0 THEN Raises
            ELSE LET rest == Utf8Decode(SubSeq(b, f.n + 1, Len(b)))
                 IN IF rest.ok THEN Returns(<<f.cp>> \o rest.val) ELSE Raises

\* The AES block size in bytes.
BlockSize == 16

\* A padding that adds nothing to a plaintext that fills its blocks.
PadToBlock(plaintext) ==
    LET padding_length == (BlockSize - (Len(plaintext) % BlockSize)) % BlockSize
    IN plaintext \o [i \in 1..padding_length |-> padding_length]

\* encrypt_message: plaintext + bytes([padding_length] * padding_length)
Pad(plaintext) ==
    LET padding_length == BlockSize - (Len(plaintext) % BlockSize)
    IN plaintext \o [i \in 1..padding_length |-> padding_length]

\* decrypt_message: padded_plaintext[:-padding_length] with padding_length the
\* last byte.  A Python slice [:-0] is [:0], and a slice that ends before the
\* start is empty.
Unpad(padded_plaintext) ==
    LET padding_length == padded_plaintext[Len(padded_plaintext)]
    IN IF padding_length = 0 \/ padding_length >= Len(padded_plaintext)
       THEN <<>>
       ELSE SubSeq(padded_plaintext, 1, Len(padded_plaintext) - padding_length)

\* The values os.urandom(16) returns; ShortIv is for bytes that are not 16
\* long.
Ivs == 1..MaxKeys
ShortIv == 0

\* AES-256-CBC.  A ciphertext is named by what it is the encryption of: AES
\* with a key is a permutation of the blocks, so every sequence of whole
\* blocks is the ciphertext, under a given key and iv, of exactly one sequence
\* of as many bytes.  Bytes that are not whole blocks are named the same way
\* and cannot be decrypted.
CbcEncrypt(key, iv, padded) == [key |-> key, iv |-> iv, blocks |-> padded]

\* decryptor.update(ciphertext) + decryptor.finalize(): ValueError when the
\* ciphertext is not whole blocks; under another key or iv the outcome is
\* other bytes of the same length, `other`.
CbcDecrypt(key, iv, ciphertext, other) ==
    IF Len(ciphertext.blocks) % BlockSize # 0 THEN Raises
    ELSE IF ciphertext.key = key /\ ciphertext.iv = iv THEN Returns(ciphertext.blocks)
    ELSE Returns(other)

\* base64.b64decode of a str: binascii.Error when it is not base64.
B64Decode(x) ==
    IF Len(x) = 2 /\ x[1] = "b64" THEN Returns(x[2]) ELSE Raises

\* A str that is not base64 (one character cannot be).
Str_a == <<"a">>

\* An encrypt_message that does not ask whether the pair has a key.
EncryptUnderAnyKey(keys, sender, recipient, message, iv) ==
    LET plaintext == Utf8Encode(message)
    IN IF ~plaintext.ok THEN NoValue
       ELSE Value([encrypted_content |->
                       B64Encode(CbcEncrypt(Get(keys, SessionKeyName(sender, recipient)),
                                            iv, Pad(plaintext.val))),
                   iv |-> B64Encode(iv),
                   is_encrypted |-> TRUE])

\* encrypt_message: the envelope, or None when the pair has no key or an
\* exception is caught (the message cannot be encoded).
EncryptMessageReturns(keys, sender, recipient, message, iv) ==
    LET session_key == SessionKeyName(sender, recipient)
        plaintext == Utf8Encode(message)
    IN IF session_key \notin DOMAIN keys THEN NoValue
       ELSE IF ~plaintext.ok THEN NoValue
       ELSE Value([encrypted_content |->
                       B64Encode(CbcEncrypt(keys[session_key], iv, Pad(plaintext.val))),
                   iv |-> B64Encode(iv),
                   is_encrypted |-> TRUE])

\* decrypt_message up to the padded plaintext: Raises when an exception is
\* caught before there is one (no envelope, a field missing, a field that is
\* not base64, an iv that is not 16 bytes, a ciphertext that is not whole
\* blocks).  encrypted_data is the envelope, or <<>> for None.
DecryptPadded(key, encrypted_data, other) ==
    IF ~({"iv", "encrypted_content"} \subseteq DOMAIN encrypted_data) THEN Raises
    ELSE LET iv == B64Decode(encrypted_data.iv)
             ciphertext == B64Decode(encrypted_data.encrypted_content)
         IN IF ~iv.ok \/ ~ciphertext.ok THEN Raises
            ELSE IF iv.val = ShortIv THEN Raises
            ELSE CbcDecrypt(key, iv.val, ciphertext.val, other)

\* decrypt_message: the message, or None when the pair has no key or an
\* exception is caught.
DecryptMessageReturns(keys, sender, recipient, encrypted_data, other) ==
    LET session_key == SessionKeyName(sender, recipient)
    IN IF session_key \notin DOMAIN keys THEN NoValue
       ELSE LET padded_plaintext == DecryptPadded(keys[session_key], encrypted_data, other)
            IN IF ~padded_plaintext.ok THEN NoValue
               ELSE IF padded_plaintext.val = <<>> THEN NoValue
               ELSE LET text == Utf8Decode(Unpad(padded_plaintext.val))
                    IN IF text.ok THEN Value(text.val) ELSE NoValue

\* The record of an encrypt_message or decrypt_message call: the operation,
\* the pair as given, the message or the envelope, the result, session_keys
\* before and after, the padded plaintext a decryption came to (<<>> when it
\* came to none), whether the envelope was the result of the call of the step
\* before (from_prev), and what that call was.
CryptOp(op, sender, recipient, arg, ret, before, after, padded, from_prev, prev) ==
    [sess |-> "", op |-> op, user1 |-> sender, user2 |-> recipient, arg |-> arg,
     ret |-> ret, before |-> before, after |-> after, padded |-> padded,
     from_prev |-> from_prev, prev |-> prev]

\* What a decrypt_message remembers of the call of the step before it.
BriefCrypt(op) ==
    [op |-> op.op, user1 |-> op.user1, user2 |-> op.user2, ret |-> op.ret,
     arg |-> IF op.op = "encrypt_message" THEN op.arg ELSE <<>>]

\* encrypt_message(sender, recipient, message); iv is os.urandom(16).
EncryptMessage(sender, recipient, message, iv) ==
    /\ UNCHANGED <<bridgeVars, storeVars, events, received>>
    /\ last' = NoCmd
    /\ rlast' = NoRead
    /\ klog' = CryptOp("encrypt_message", sender, recipient, message,
                       EncryptMessageReturns(session_keys, sender, recipient, message, iv),
                       session_keys, session_keys', <<>>, FALSE, BriefCrypt(NoOp))

\* decrypt_message(sender, recipient, encrypted_data)
DecryptMessage(sender, recipient, encrypted_data, from_prev, other) ==
    LET session_key == SessionKeyName(sender, recipient)
        padded == IF session_key \in DOMAIN session_keys
                  THEN DecryptPadded(session_keys[session_key], encrypted_data, other)
                  ELSE Raises
    IN
    /\ UNCHANGED <<bridgeVars, storeVars, events, received>>
    /\ last' = NoCmd
    /\ rlast' = NoRead
    /\ klog' = CryptOp("decrypt_message", sender, recipient, encrypted_data,
                       DecryptMessageReturns(session_keys, sender, recipient,
                                             encrypted_data, other),
                       session_keys, session_keys', padded.val, from_prev,
                       BriefCrypt(IF from_prev THEN klog ELSE NoOp))

\* decrypt_message given what the encrypt_message of the step before
\* returned (None included).
DecryptResult(sender, recipient) ==
    /\ klog.op = "encrypt_message"
    /\ DecryptMessage(sender, recipient,
                      IF klog.ret = NoValue THEN <<>> ELSE klog.ret[1], TRUE, <<>>)

\* establish_session called on the service itself.
EstablishSessionCall(user1, user2) ==
    /\ \E fresh \in (IF EstablishReturns(session_keys, user1, user2)
                      THEN 1..MaxKeys ELSE {None}) :
           session_keys' = EstablishSession(session_keys, user1, user2, fresh)
    /\ klog' = KeyOp("", "establish_session", user1, user2,
                     EstablishReturns(session_keys, user1, user2),
                     session_keys, session_keys')
    /\ UNCHANGED <<bridgeVars, frontend_users, pending_sessions, events, received>>
    /\ last' = NoCmd
    /\ rlast' = NoRead

\* ------------------------------------------------------------------ dispatch
\* The names of @handlers.register: the keys of MessageHandlerRegistry._handlers.
Registered ==
    {"connect", "message", "establish_session", "get_session_key",
     "encryption_session_ready", "disconnect"}

\* A registry that gives the disconnect handler for a name it does not have.
FallsBackToDisconnect(msg_type) ==
    IF msg_type \in Registered THEN Value(msg_type) ELSE Value("disconnect")

\* self._handlers.get(msg_type): the handler registered under the name
\* (named by it), or None
HandlerFor(msg_type) ==
    IF msg_type \in Registered THEN Value(msg_type) ELSE NoValue

\* MessageHandlerRegistry.dispatch as handle_client_message calls it.  With
\* no type in the payload, or no handler under it, dispatch returns False
\* (the caller logs that); otherwise the handler runs and dispatch returns
\* True.
Dispatch(s, data, outcome) ==
    LET handler == IF "type" \in DOMAIN data THEN HandlerFor(data.type) ELSE NoValue
    IN IF handler = NoValue
       THEN /\ hpc[s] = "idle"
            /\ UNCHANGED <<bridgeVars, storeVars, events, received>>
            /\ last' = Done(s, "dispatch", "false", data, View(s), View(s),
                            SocketAt(sockets, irc_socket[s]),
                            TaskAt(tasks, reader_task[s]), <<>>, <<>>)
            /\ rlast' = NoRead
            /\ klog' = NoOp
       ELSE CASE handler[1] = "connect" -> HandleConnect(s, data, outcome)
              [] handler[1] = "message" -> Message(s, data)
              [] handler[1] = "establish_session" ->
                     HandleEstablishSession(s, GetOr(data, "other_user", NoNick))
              [] handler[1] = "get_session_key" ->
                     HandleGetSessionKey(s, GetOr(data, "from", NoNick))
              [] handler[1] = "encryption_session_ready" ->
                     HandleEncryptionSessionReady(s, GetOr(data, "other_user", NoNick))
              [] handler[1] = "disconnect" -> Disconnect(s)

\* ---------------------------------------------------------------- irc_parser
\* Text received from IRC is a sequence of characters.  An element that is
\* not one character stands for a run of characters that is never split:
\* "encrypted_content", "iv" and "x" are members of a JSON object (a key with
\* its value), "C3" and "A9" are the two bytes of the character "U+00E9".

\* str literals of irc_bridge and irc_parser
Str ==
    [CRLF |-> <<"\r", "\n">>,
     PING |-> <<"P", "I", "N", "G">>,
     PRIVMSG |-> <<"P", "R", "I", "V", "M", "S", "G">>,
     JOIN |-> <<"J", "O", "I", "N">>,
     PART |-> <<"P", "A", "R", "T">>,
     QUIT |-> <<"Q", "U", "I", "T">>,
     n376 |-> <<"3", "7", "6">>,
     n422 |-> <<"4", "2", "2">>,
     n353 |-> <<"3", "5", "3">>,
     n366 |-> <<"3", "6", "6">>,
     Encrypted |-> <<"[", "Encrypted message", "]">>]

\* F of the value of v.  (A LET definition and an operator's argument are
\* expressions, evaluated wherever they are used; v is evaluated once.)
Apply(F(_), v) == CHOOSE r \in { F(x) : x \in {v} } : TRUE

\* str.find(sub): the first index where sub occurs in s, 0 when there is none
Find(s, sub) ==
    LET at == { i \in 1..(Len(s) - Len(sub) + 1) :
                    SubSeq(s, i, i + Len(sub) - 1) = sub }
    IN IF at = {} THEN 0 ELSE CHOOSE i \in at : \A j \in at : i <= j

\* str.split(sep, maxsplit); maxsplit -1 is no limit.  The text is cut at
\* the occurrences of sep, the first maxsplit of them (no separator of the
\* program can overlap itself, so every occurrence counts).
Split(s, sep, maxsplit) ==
    LET occ == { i \in 1..(Len(s) - Len(sep) + 1) :
                     SubSeq(s, i, i + Len(sep) - 1) = sep }
        first(o) == IF maxsplit < 0 THEN o
                    ELSE { i \in o : Cardinality({ j \in o : j < i }) < maxsplit }
        parts(cut) ==
            LET nth(k) == CHOOSE i \in cut : Cardinality({ j \in cut : j < i }) = k - 1
                n == Cardinality(cut)
            IN [k \in 1..(n + 1) |->
                    SubSeq(s, IF k = 1 THEN 1 ELSE nth(k - 1) + Len(sep),
                              IF k = n + 1 THEN Len(s) ELSE nth(k) - 1)]
    IN Apply(parts, Apply(first, occ))

\* bytes.decode("utf-8", errors="ignore") of one recv: the bytes C3 A9
\* together are one character, a byte of the two that stands alone (the
\* other is in another recv, or missing) is dropped.
DecodeIgnore(data) ==
    LET decoded == [i \in DOMAIN data |->
                       IF data[i] = "C3"
                       THEN (IF i < Len(data) /\ data[i + 1] = "A9"
                             THEN "U+00E9" ELSE "")
                       ELSE IF data[i] = "A9" THEN ""
                       ELSE data[i]]
    IN SelectSeq(decoded, LAMBDA c : c # "")

\* extract_ping_server
ExtractPingServer(line) ==
    IF Find(line, <<":">>) # 0 THEN Split(line, <<":">>, 1)[2] ELSE <<>>

\* parse_irc_line: None, or the prefix, the command and the params
ParseIrcLine(line) ==
    LET parse(parts) ==
            IF Len(parts) < 2 THEN NoValue
            ELSE IF StartsWith(parts[1], <<":">>)
            THEN Value([prefix |-> Tail(parts[1]), command |-> parts[2],
                        params |-> SubSeq(parts, 3, Len(parts))])
            ELSE Value([prefix |-> <<>>, command |-> parts[1],
                        params |-> Tail(parts)])
    IN Apply(parse, Split(line, <<" ">>, -1))

\* extract_sender_from_prefix
ExtractSenderFromPrefix(prefix) ==
    IF Find(prefix, <<"!">>) # 0 THEN Split(prefix, <<"!">>, -1)[1] ELSE prefix

\* parse_names_list: the words after the second ":" without their leading
\* "@" and "+", those dropped of which nothing is left
ParseNamesList(line) ==
    LET lstrip(u) ==
            LET kept == { i \in DOMAIN u : u[i] \notin {"@", "+"} }
            IN IF kept = {} THEN <<>>
               ELSE SubSeq(u, CHOOSE i \in kept : \A j \in kept : i <= j, Len(u))
        words == IF Len(Split(line, <<":">>, -1)) - 1 >= 2
                 THEN SelectSeq(Split(Split(line, <<":">>, 2)[3], <<" ">>, -1),
                                LAMBDA w : w # <<>>)
                 ELSE <<>>
    IN SelectSeq([i \in DOMAIN words |-> lstrip(words[i])], LAMBDA w : w # <<>>)

\* parse_privmsg.  json.loads returns an object for "{", members, "}" and
\* raises for a text that starts with "{" and is anything else.
ParsePrivmsg(prefix, params, line) ==
    LET has(x, member) == \E i \in DOMAIN x : x[i] = member
        parse(message) ==
            LET loads == IF /\ Len(message) >= 2
                            /\ message[Len(message)] = "}"
                            /\ \A i \in 2..(Len(message) - 1) :
                                   message[i] \in {"encrypted_content", "iv", "x"}
                         THEN Returns(JsonLoads(message))
                         ELSE Raises
                is_encrypted == /\ StartsWith(message, <<"{">>)
                                /\ has(message, "encrypted_content")
                                /\ loads.ok
                                /\ has(loads.val, "encrypted_content")
                                /\ has(loads.val, "iv")
            IN [sender |-> ExtractSenderFromPrefix(prefix),
                target |-> IF params # <<>> THEN params[1] ELSE <<>>,
                content |-> IF is_encrypted THEN Str.Encrypted ELSE message,
                is_encrypted |-> is_encrypted,
                encrypted_data |-> IF is_encrypted THEN Value(loads.val) ELSE NoValue]
    IN Apply(parse, IF Len(Split(line, <<":">>, -1)) - 1 >= 2
                    THEN Split(line, <<":">>, 2)[3] ELSE <<>>)

\* A test that takes every numeric of the 3xx and 4xx ranges for the end of
\* the MOTD.
AnyReplyNumeric(command) ==
    Len(command) = 3 /\ command[1] \in {"3", "4"}

\* is_end_of_motd
IsEndOfMotd(command) == command \in {Str.n376, Str.n422}

\* ---------------------------------------------------------------- the reader
\* _read_from_irc at its while condition (when the task first runs, and after
\* an await in the loop body).
ReaderCheck(t) ==
    LET s == tasks[t].sess
    IN
    /\ tasks[t].pc = "check"
    /\ tasks' = [tasks EXCEPT ![t].pc =
                    IF connected[s] /\ irc_socket[s] # None
                    THEN "sleep" ELSE "done"]
    /\ UNCHANGED <<bridges, hpc, hlocal, irc_socket, connected, reader_task,
                   nickname, is_frontend_user, conn_params, sockets, storeVars, events, received>>
    /\ last' = NoCmd
    /\ rlast' = NoRead
    /\ klog' = NoOp

\* A cancelled reader task is scheduled: CancelledError is raised at its
\* await (it is no Exception, so no handler of the loop catches it) and the
\* task ends.
ReaderCancelled(t) ==
    /\ tasks[t].pc = "cancelled"
    /\ tasks' = [tasks EXCEPT ![t].pc = "done"]
    /\ UNCHANGED <<bridges, hpc, hlocal, irc_socket, connected, reader_task,
                   nickname, is_frontend_user, conn_params, sockets, storeVars, events, received>>
    /\ last' = NoCmd
    /\ rlast' = NoRead
    /\ klog' = NoOp

\* _handle_irc_command: the socket.send calls added to net and the event sent
\* to the client (none for a command it has no branch for).
HandleIrcCommand(net, s, prefix, command, params, raw_line) ==
    LET channel == conn_params[s].channel
        user == ExtractSenderFromPrefix(prefix)
        message(privmsg) ==
            Event("message",
                  [sender |-> privmsg.sender,
                   target |-> privmsg.target,
                   content |-> privmsg.content,
                   is_private |-> privmsg.target = nickname[s],
                   is_encrypted |-> privmsg.is_encrypted,
                   encrypted_data |-> privmsg.encrypted_data])
    IN IF IsEndOfMotd(command)
       THEN [net |-> SendIrcRaw(net, irc_socket[s], Line("JOIN", <<channel>>)),
             sent |-> <<Event("system", [text |-> "Joining channel",
                                         channel |-> channel])>>]
       ELSE IF command = Str.n353
       THEN [net |-> net, sent |-> <<Event("users", ParseNamesList(raw_line))>>]
       ELSE IF command = Str.n366
       THEN [net |-> net,
             sent |-> <<Event("system", [text |-> "Successfully joined",
                                         channel |-> channel])>>]
       ELSE IF command = Str.PRIVMSG
       THEN [net |-> net,
             sent |-> <<Apply(message, ParsePrivmsg(prefix, params, raw_line))>>]
       ELSE IF command = Str.JOIN
       THEN [net |-> net, sent |-> <<Event("join", user)>>]
       ELSE IF command = Str.PART
       THEN [net |-> net, sent |-> <<Event("part", user)>>]
       ELSE IF command = Str.QUIT
       THEN [net |-> net, sent |-> <<Event("quit", user)>>]
       ELSE [net |-> net, sent |-> <<>>]

\* _process_irc_line
ProcessIrcLine(net, s, line) ==
    LET handle(parsed) ==
            IF parsed = NoValue
            THEN [net |-> net, sent |-> <<>>]
            ELSE HandleIrcCommand(net, s, parsed[1].prefix, parsed[1].command,
                                  parsed[1].params, line)
    IN IF StartsWith(line, Str.PING)
       THEN [net |-> SendIrcRaw(net, irc_socket[s],
                                Line("PONG", <<ExtractPingServer(line)>>)),
             sent |-> <<>>]
       ELSE Apply(handle, ParseIrcLine(line))

\* The inner loop of _read_from_irc from the i-th of the lines the buffer
\* holds, as far as it runs without being suspended: the non-empty lines
\* are processed until none is left or one has sent the client an event (the
\* task is then suspended in send_json).  to is the last line taken off the
\* buffer, lines are the lines processed.
RECURSIVE ProcessLines(_, _, _, _)
ProcessLines(net, s, all, i) ==
    LET go(r) ==
            IF r.sent # <<>>
            THEN [net |-> r.net, to |-> i, sent |-> r.sent, lines |-> <<all[i]>>]
            ELSE Apply(LAMBDA more : [more EXCEPT !.lines = <<all[i]>> \o @],
                       ProcessLines(r.net, s, all, i + 1))
    IN IF i > Len(all)
       THEN [net |-> net, to |-> Len(all), sent |-> <<>>, lines |-> <<>>]
       ELSE IF all[i] = <<>>
       THEN ProcessLines(net, s, all, i + 1)
       ELSE Apply(go, ProcessIrcLine(net, s, all[i]))

\* The inner loop on a buffer: what is in front of each "\r\n" is a line,
\* what follows the last one stays in the buffer, and so do the lines that
\* were not reached.
ProcessBuffer(net, s, buffer) ==
    LET result(p) ==
            [net |-> p.net, sent |-> p.sent, lines |-> p.lines, to |-> p.to,
             buffer |-> Split(buffer, Str.CRLF, p.to)[p.to + 1]]
        process(parts) ==
            Apply(result, ProcessLines(net, s, SubSeq(parts, 1, Len(parts) - 1), 1))
    IN Apply(process, Split(buffer, Str.CRLF, -1))

\* Where the reader stands after its inner loop ran as ProcessBuffer says:
\* suspended in the inner loop with lines left ("lines"), or with none left
\* and the while condition next ("check"); or, never suspended, past the
\* while condition and asleep ("sleep") or ended ("done").
AfterLines(s, p) ==
    IF p.sent # <<>>
    THEN (IF Find(p.buffer, Str.CRLF) # 0 THEN "lines" ELSE "check")
    ELSE (IF connected[s] /\ irc_socket[s] # None THEN "sleep" ELSE "done")

\* A read loop that marks the bridge disconnected when recv fails.
ClearedOnReadError(s, dead) == connected[s] /\ ~dead

\* IRCBridge.connected after a recv of the read loop: the loop's break and
\* its except branches assign nothing.
ConnectedAfterRecv(s, dead) == connected[s]

\* _read_from_irc woken from asyncio.sleep(0.1): recv on the bridge's current
\* socket and the handling of what it returns.  data is what has arrived
\* (nothing: BlockingIOError, and the task sleeps again); on a socket that is
\* not healthy recv raises or returns b"" and the task ends.
ReaderRecv(t, data) ==
    LET s == tasks[t].sess
        k == irc_socket[s]
        dead == k = None \/ ~Healthy(SocketAt(sockets, k))
    IN
    /\ tasks[t].pc = "sleep"
    /\ dead => data = <<>>
    /\ \E buffer \in { tasks[t].buffer \o DecodeIgnore(data) } :
       \E p \in { ProcessBuffer(Net(sockets), s, buffer) } :
       IF dead
       THEN /\ tasks' = [tasks EXCEPT ![t].pc = "done"]
            /\ UNCHANGED sockets
            /\ rlast' = NoRead
       ELSE IF data = <<>>
       THEN /\ tasks' = [tasks EXCEPT ![t].pc = "check"]
            /\ UNCHANGED sockets
            /\ rlast' = NoRead
       ELSE /\ tasks' = [tasks EXCEPT
                           ![t].pc = AfterLines(s, p),
                           ![t].buffer = p.buffer,
                           ![t].raw = Split(@ \o data, Str.CRLF, p.to)[p.to + 1]]
            /\ sockets' = p.net.socks
            /\ rlast' = Read(t, data, p.lines, p.net.out, p.sent)
    /\ connected' = [connected EXCEPT ![s] = ConnectedAfterRecv(s, dead)]
    /\ UNCHANGED <<bridges, hpc, hlocal, irc_socket, reader_task,
                   nickname, is_frontend_user, conn_params, storeVars, events, received>>
    /\ last' = NoCmd
    /\ klog' = NoOp

\* _read_from_irc resumed in its inner loop after an event was sent, with
\* lines left in the buffer.
ReaderLines(t) ==
    LET s == tasks[t].sess
    IN
    /\ tasks[t].pc = "lines"
    /\ \E p \in { ProcessBuffer(Net(sockets), s, tasks[t].buffer) } :
          /\ tasks' = [tasks EXCEPT
                         ![t].pc = AfterLines(s, p),
                         ![t].buffer = p.buffer,
                         ![t].raw = Split(@, Str.CRLF, p.to)[p.to + 1]]
          /\ sockets' = p.net.socks
          /\ rlast' = Read(t, <<>>, p.lines, p.net.out, p.sent)
    /\ UNCHANGED <<bridges, hpc, hlocal, irc_socket, connected, reader_task,
                   nickname, is_frontend_user, conn_params, storeVars, events, received>>
    /\ last' = NoCmd
    /\ klog' = NoOp

\* ------------------------------------------------------------ the environment
\* The IRC server or the network drops the connection of a socket a bridge
\* uses.
PeerClose(k) ==
    /\ Healthy(sockets[k])
    /\ \E s \in Sessions : irc_socket[s] = k
    /\ sockets' = [sockets EXCEPT ![k].broken = TRUE]
    /\ UNCHANGED <<bridges, hpc, hlocal, irc_socket, connected, reader_task,
                   nickname, is_frontend_user, conn_params, tasks, storeVars, events, received>>
    /\ last' = NoCmd
    /\ rlast' = NoRead
    /\ klog' = NoOp

\* A socket object no bridge refers to any more may be finalized by the
\* runtime, which closes its descriptor; when, or whether, is up to the
\* runtime.
Finalize(k) ==
    /\ sockets[k].state = "open"
    /\ \A s \in Sessions : irc_socket[s] # k
    /\ sockets' = [sockets EXCEPT ![k].state = "finalized", ![k].tcp = FALSE,
                                  ![k].broken = FALSE]
    /\ UNCHANGED <<bridges, hpc, hlocal, irc_socket, connected, reader_task,
                   nickname, is_frontend_user, conn_params, tasks, storeVars, events, received>>
    /\ last' = NoCmd
    /\ rlast' = NoRead
    /\ klog' = NoOp

\* ----------------------------------------------------------- specifications
ConnectOutcomes == {"nosock", "refused", "ok"}

\* What recv returns to the reader of the one bridge: nothing,
\* "PING :srv\r\n", or ":srv 376 a :End\r\n".
RecvOutcomes ==
    { <<>>,
      Str.PING \o <<" ", ":">> \o Str_srv \o Str.CRLF,
      <<":">> \o Str_srv \o <<" ">> \o Str.n376 \o <<" ", "a", " ", ":", "E", "n", "d">>
          \o Str.CRLF }

\* One bridge that is no Frontend user's, its IRC sockets and reader tasks.
TheBridge == "ws1"
BridgeNicks == { <<"a">> }
Str_hi == <<"h", "i">>

\* The message payloads: flagged is_encrypted with an envelope, for the user
\* "c" and for no target (the channel); unflagged for "@@c" with no content;
\* flagged is_encrypted with no envelope, for "@c".
Payloads ==
    { [target |-> <<"c">>, content |-> Str_hi,
       is_encrypted |-> TRUE, encrypted_data |-> <<"e">>],
      [content |-> Str_hi, is_encrypted |-> TRUE, encrypted_data |-> <<"e">>],
      [target |-> <<"@", "@", "c">>, content |-> <<>>],
      [target |-> <<"@", "c">>, content |-> Str_hi,
       is_encrypted |-> TRUE, encrypted_data |-> <<>>] }

Next ==
    \/ \E ok \in BOOLEAN : Accept(TheBridge, ok)
    \/ \E n \in BridgeNicks, o \in ConnectOutcomes :
           Connect(TheBridge, n, FALSE, o)
    \/ Disconnect(TheBridge)
    \/ Close(TheBridge)
    \/ CloseFinish(TheBridge)
    \/ \E d \in Payloads : Message(TheBridge, d)
    \/ \E t \in DOMAIN tasks : ReaderCheck(t)
    \/ \E t \in DOMAIN tasks : ReaderCancelled(t)
    \/ \E t \in DOMAIN tasks, g \in RecvOutcomes : ReaderRecv(t, g)
    \/ \E k \in DOMAIN sockets : PeerClose(k)
    \/ \E k \in DOMAIN sockets : Finalize(k)

Spec == Init /\ [][Next]_vars

\* The scheduler keeps running every reader task that can take a step.
ReaderStep(t) ==
    /\ t \in DOMAIN tasks
    /\ \/ ReaderCheck(t)
       \/ ReaderCancelled(t)
       \/ \E g \in RecvOutcomes : ReaderRecv(t, g)

SpecFair == Spec /\ \A t \in 1..MaxSockets : WF_vars(ReaderStep(t))

\* Two clients, "a_b" and "c", and the key store; every connect fails before
\* a socket exists (the nickname and the Frontend flag are set all the same).
NicksOf(s) == IF s = "ws1" THEN { <<"a", "_", "b">> } ELSE { <<"c">> }
Counterparts(s) == IF s = "ws1" THEN { <<"c">> } ELSE { <<"a", "_", "b">> }
CryptOps == {"encrypt_message", "decrypt_message"}

NextKeys ==
    \/ \E s \in Sessions : Accept(s, TRUE)
    \/ \E s \in Sessions : \E n \in NicksOf(s) : Connect(s, n, TRUE, "nosock")
    \/ \E s \in Sessions : ConnectResume(s, "nosock")
    \/ \E s \in Sessions : Disconnect(s)
    \/ \E s \in Sessions : \E o \in Counterparts(s) : HandleEstablishSession(s, o)
    \/ \E s \in Sessions : \E o \in Counterparts(s) : HandleGetSessionKey(s, o)
    \/ \E s \in Sessions : \E o \in Counterparts(s) :
           HandleEncryptionSessionReady(s, o)
    \/ \E s \in Sessions : ReadyResume(s)
    \/ \E op \in CryptOps : ApiCrypt(op, <<"a", "_", "b">>, <<"c">>)

SpecKeys == Init /\ [][NextKeys]_vars

\* The same two clients where the second one is "a" at one time and "c" at
\* another; the first confirms sessions, the second asks for keys.
LaterNicksOf(s) == IF s = "ws1" THEN { <<"a", "_", "b">> } ELSE { <<"a">>, <<"c">> }

NextNicks ==
    \/ \E s \in Sessions : Accept(s, TRUE)
    \/ \E s \in Sessions : \E n \in LaterNicksOf(s) : Connect(s, n, TRUE, "nosock")
    \/ \E s \in Sessions : ConnectResume(s, "nosock")
    \/ \E s \in Sessions : Disconnect(s)
    \/ \E o \in Counterparts("ws2") : HandleGetSessionKey("ws2", o)
    \/ \E o \in Counterparts("ws1") : HandleEncryptionSessionReady("ws1", o)
    \/ ReadyResume("ws1")

SpecNicks == Init /\ [][NextNicks]_vars

\* One bridge and the connect payloads a client may send it: some name a
\* server, a port or a channel of the client's choosing (the one that names
\* all three has the nickname "c"), one has nothing but a nickname.
Str_evil == <<"e", "v", "i", "l">>
ConnectPayloads ==
    { [nickname |-> <<"a">>, is_frontend_user |-> FALSE],
      [nickname |-> <<"c">>, is_frontend_user |-> FALSE,
       server |-> Str_evil, port |-> 1, channel |-> <<"#", "x">>],
      [nickname |-> <<"a">>, is_frontend_user |-> FALSE, port |-> 1] }

NextTarget ==
    \/ Accept(TheBridge, TRUE)
    \/ \E d \in ConnectPayloads, o \in ConnectOutcomes :
           HandleConnect(TheBridge, d, o)
    \/ Disconnect(TheBridge)
    \/ \E t \in DOMAIN tasks : ReaderCheck(t)
    \/ \E t \in DOMAIN tasks : ReaderCancelled(t)
    \/ \E t \in DOMAIN tasks, g \in RecvOutcomes : ReaderRecv(t, g)

SpecTarget == Init /\ [][NextTarget]_vars

\* The two clients "a_b" and "c", each connecting as a Frontend user or not,
\* sending key commands with or without a nickname, and ending by command or
\* by closing the connection.
NextGuard ==
    \/ \E s \in Sessions : Accept(s, TRUE)
    \/ \E s \in Sessions : \E n \in NicksOf(s), fe \in BOOLEAN :
           Connect(s, n, fe, "nosock")
    \/ \E s \in Sessions : ConnectResume(s, "nosock")
    \/ \E s \in Sessions : Disconnect(s)
    \/ \E s \in Sessions : Close(s)
    \/ \E s \in Sessions : CloseFinish(s)
    \/ \E s \in Sessions : \E o \in Counterparts(s) : HandleEstablishSession(s, o)
    \/ \E s \in Sessions : \E o \in Counterparts(s) : HandleGetSessionKey(s, o)
    \/ \E s \in Sessions : \E o \in Counterparts(s) :
           HandleEncryptionSessionReady(s, o)
    \/ \E s \in Sessions : ReadyResume(s)

SpecGuard == Init /\ [][NextGuard]_vars

\* The key store alone, with the pair "a_b", "c": sessions are established,
\* messages encrypted, and envelopes decrypted: the one just encrypted, and
\* envelopes made by a holder of some key.
CryptUsers == { <<"a", "_", "b">>, <<"c">> }
Messages == StrsUpTo(MaxText)

\* Block sequences an envelope may decrypt to: a padded "h"; sixteen bytes 0
\* and sixteen bytes 17 (no padding ends in those); thirteen "h" and the
\* bytes 9, 9, 3 (the last three are not all 3); fifteen bytes 255 and a 1
\* (padded bytes that are no UTF-8); three bytes and none (no whole blocks).
Str_h == <<104>>
PaddedBytes ==
    { Pad(Str_h),
      [i \in 1..BlockSize |-> 0],
      [i \in 1..BlockSize |-> 17],
      [i \in 1..13 |-> 104] \o <<9, 9, 3>>,
      [i \in 1..15 |-> 255] \o <<1>>,
      <<104, 104, 104>>,
      <<>> }

\* Those of them that are whole blocks.
WholeBlocks == { p \in PaddedBytes : p # <<>> /\ Len(p) % BlockSize = 0 }

\* Envelopes a client that holds key can make, and malformed ones.
Envelopes(key) ==
    { [encrypted_content |-> B64Encode(CbcEncrypt(key, 1, p)), iv |-> B64Encode(1),
       is_encrypted |-> TRUE] : p \in PaddedBytes }
    \cup
    { [encrypted_content |-> B64Encode(CbcEncrypt(key, 1, Pad(Str_h)))],
      [iv |-> B64Encode(1)],
      [encrypted_content |-> B64Encode(CbcEncrypt(key, 1, Pad(Str_h))), iv |-> Str_a],
      [encrypted_content |-> Str_a, iv |-> B64Encode(1)],
      [encrypted_content |-> B64Encode(CbcEncrypt(key, 1, Pad(Str_h))),
       iv |-> B64Encode(ShortIv)] }

\* An envelope made under a key that is none of os.urandom's.
StaleEnvelope ==
    [encrypted_content |-> B64Encode(CbcEncrypt(None, 1, Pad(Str_h))),
     iv |-> B64Encode(1), is_encrypted |-> TRUE]

\* The key of the pair, or a key when the pair has none.
KeyOrAny(keys, user1, user2) ==
    IF SessionKeyName(user1, user2) \in DOMAIN keys
    THEN keys[SessionKeyName(user1, user2)] ELSE 1

NextCrypt ==
    \/ \E u1 \in CryptUsers : \E u2 \in CryptUsers \ {u1} : EstablishSessionCall(u1, u2)
    \/ \E u1 \in CryptUsers : \E u2 \in CryptUsers \ {u1} :
          \E m \in Messages, iv \in Ivs : EncryptMessage(u1, u2, m, iv)
    \/ \E u1 \in CryptUsers : \E u2 \in CryptUsers \ {u1} : DecryptResult(u1, u2)
    \/ \E u1 \in CryptUsers : \E u2 \in CryptUsers \ {u1} :
          \E e \in Envelopes(KeyOrAny(session_keys, u1, u2)) :
              DecryptMessage(u1, u2, e, FALSE, <<>>)
    \/ \E u1 \in CryptUsers : \E u2 \in CryptUsers \ {u1} :
          \E other \in WholeBlocks : DecryptMessage(u1, u2, StaleEnvelope, FALSE, other)

SpecCrypt == Init /\ [][NextCrypt]_vars

\* One bridge with the nickname "a", which connects and may connect once
\* more, and what an IRC server may send it.
MaxReconnects == 1

\* The lines of the server.
\*   privmsg: ":b!u@host PRIVMSG target :text" for a host name and an IPv6
\*     address; the bridge's nickname and its channel; as text "hi", "a:b",
\*     nothing, an envelope, an object without iv, and an envelope cut short;
\*   ping: "PING :srv", ":s PING :srv", "PING srv" and ":s PING srv";
\*   numeric: ":srv <numeric> a :x" (for 353, ":srv 353 a :@x +y").
IrcLines ==
    [privmsg |->
         [host \in { <<"h">>, <<"f", ":", "1">> },
          target \in { <<"a">>, Channel },
          text \in { Str_hi, <<"a", ":", "b">>, <<>>,
                     <<"{", "encrypted_content", "iv", "}">>,
                     <<"{", "encrypted_content", "}">>,
                     <<"{", "encrypted_content", "iv">> } |->
             <<":", "b", "!", "u", "@">> \o host \o <<" ">> \o Str.PRIVMSG
                 \o <<" ">> \o target \o <<" ", ":">> \o text],
     ping |->
         [prefix \in { <<>>, <<":", "s", " ">> }, colon \in { <<":">>, <<>> } |->
             prefix \o Str.PING \o <<" ">> \o colon \o Str_srv],
     numeric |->
         [n \in { Str.n376, Str.n422, Str.n353, Str.n366,
                  <<"3", "7", "2">>, <<"0", "0", "1">> } |->
             <<":">> \o Str_srv \o <<" ">> \o n \o <<" ", "a", " ", ":">>
                 \o (IF n = Str.n353 THEN <<"@", "x", " ", "+", "y">> ELSE <<"x">>)]]

\* What one recv returns to a reader whose buffer is empty: a line with its
\* "\r\n"; two lines (a PING and a 376, a 376 and a PRIVMSG with an empty
\* line between them, a PRIVMSG and a 376); the first half of a line, cut
\* between two characters or between the two bytes of one.  To a reader
\* that holds a first half it returns the other half: the second byte and
\* the "\r\n", or the rest with the line that follows it.
LineChunks(buffer) ==
    IF buffer = Str.PING \o <<" ", ":">>
    THEN { <<"A9", "\r", "\n">> }
    ELSE IF buffer # <<>>
    THEN { <<"N", " ", "#", "x", "\r", "\n", "P", "I", "N", "G", " ", ":",
             "C3", "A9", "\r", "\n">> }
    ELSE
    { IrcLines.privmsg[x] \o Str.CRLF : x \in DOMAIN IrcLines.privmsg }
    \cup
    { IrcLines.ping[x] \o Str.CRLF : x \in DOMAIN IrcLines.ping }
    \cup
    { IrcLines.numeric[x] \o Str.CRLF : x \in DOMAIN IrcLines.numeric }
    \cup
    { IrcLines.ping[<<>>, <<":">>] \o Str.CRLF \o IrcLines.numeric[Str.n376] \o Str.CRLF,
      IrcLines.numeric[Str.n376] \o Str.CRLF \o Str.CRLF
          \o IrcLines.privmsg[<<"h">>, <<"a">>, Str_hi] \o Str.CRLF,
      IrcLines.privmsg[<<"h">>, <<"a">>, Str_hi] \o Str.CRLF
          \o IrcLines.numeric[Str.n376] \o Str.CRLF,
      <<":", "b", "!", "u", "@", "h", " ", "J", "O", "I">>,
      Str.PING \o <<" ", ":", "C3">> }

NextLines ==
    \/ Accept(TheBridge, TRUE)
    \/ Len(sockets) <= MaxReconnects /\ Connect(TheBridge, <<"a">>, FALSE, "ok")
    \/ Disconnect(TheBridge)
    \/ \E t \in DOMAIN tasks : ReaderCheck(t)
    \/ \E t \in DOMAIN tasks : ReaderCancelled(t)
    \/ \E t \in DOMAIN tasks :
           \E d \in LineChunks(tasks[t].buffer) \cup { <<>> } : ReaderRecv(t, d)
    \/ \E t \in DOMAIN tasks : ReaderLines(t)

SpecLines == Init /\ [][NextLines]_vars

\* One bridge whose client's payloads all go through dispatch: one for each
\* handler (the connect is a Frontend user's), and payloads with the names
\* "Connect", "disconnect " and "unknown_type", with an empty name and with
\* no type.  A connect succeeds or fails before it has a socket; the reader
\* tasks are not scheduled.
DispatchPayloads ==
    { [type |-> "connect", nickname |-> <<"a">>, is_frontend_user |-> TRUE],
      [type |-> "message", target |-> <<"c">>, content |-> Str_hi],
      [type |-> "establish_session", other_user |-> <<"c">>],
      [type |-> "get_session_key", from |-> <<"c">>],
      [type |-> "encryption_session_ready", other_user |-> <<"c">>],
      [type |-> "disconnect"],
      [type |-> "Connect", nickname |-> <<"a">>, is_frontend_user |-> TRUE],
      [type |-> "disconnect ", content |-> Str_hi],
      [type |-> "unknown_type"],
      [type |-> "", target |-> <<"c">>, content |-> Str_hi],
      [nickname |-> <<"a">>, is_frontend_user |-> TRUE] }

NextDispatch ==
    \/ Accept(TheBridge, TRUE)
    \/ \E d \in DispatchPayloads, o \in {"ok", "nosock"} : Dispatch(TheBridge, d, o)
    \/ ReadyResume(TheBridge)

SpecDispatch == Init /\ [][NextDispatch]_vars

\* Two clients that connect as Frontend users, the first as "a_b" or "a",
\* the second as "a", and name in their key commands "c" or "b_c", which
\* are the nicknames of no client: the first establishes sessions, the
\* second asks for keys.
PairNicks ==
    [of |-> [s \in Sessions |->
                IF s = "ws1" THEN { <<"a", "_", "b">>, <<"a">> } ELSE { <<"a">> }],
     named |-> { <<"c">>, <<"b", "_", "c">> }]

NextPairs ==
    \/ \E s \in Sessions : Accept(s, TRUE)
    \/ \E s \in Sessions : \E n \in PairNicks.of[s] :
           Len(sockets) <= MaxReconnects /\ Connect(s, n, TRUE, "ok")
    \/ \E s \in Sessions : Len(sockets) <= MaxReconnects /\ ConnectResume(s, "ok")
    \/ \E s \in Sessions : Disconnect(s)
    \/ \E o \in PairNicks.named : HandleEstablishSession("ws1", o)
    \/ \E o \in PairNicks.named : HandleGetSessionKey("ws2", o)

SpecPairs == Init /\ [][NextPairs]_vars

\* ------------------------------------------------------------------ claims
\* The events of a given type in a list of events.
OfType(sent, type) == { i \in DOMAIN sent : sent[i].type = type }

ConnectReturned(ret) == last.cmd = "connect" /\ last.ret = ret

\* disconnect() has returned, from handle_disconnect or the endpoint's
\* finally block.
DisconnectReturned == last.cmd \in {"disconnect", "close"}

C2_FailedConnectLeavesIdle ==
    ConnectReturned("false") =>
        /\ Cardinality(OfType(last.sent, "error")) = 1
        /\ ~last.post.connected
        /\ last.post.irc_socket = None
        /\ last.post.ntasks = last.pre.ntasks

\* The session was Active when disconnect() was called.
WasActive == last.pre.connected /\ last.pre.irc_socket # None

\* C3: disconnect() on an Active session makes one write, QUIT :Goodbye, to
\* the session's socket, which goes out exactly when the socket was healthy
\* before the call (so it is written before the close); at the return the
\* socket is closed, connected is false, the session holds no socket, its
\* reader task is cancelled or has ended, and the disconnected event is what
\* was sent.
C3_DisconnectActive ==
    (DisconnectReturned /\ WasActive) =>
        /\ last.wrote = << [sock |-> last.pre.irc_socket,
                            line |-> Line("QUIT", <<Str_Goodbye>>),
                            ok |-> Healthy(last.pre.sock)] >>
        /\ last.oldsock.state = "closed"
        /\ ~last.post.connected
        /\ last.post.irc_socket = None
        /\ last.pre.reader_task # None => last.oldtask.pc \in {"cancelled", "done"}
        /\ last.sent = << Event("disconnected", <<>>) >>

\* disconnect() on an Active session whose socket was healthy and whose
\* reader task was waiting in its loop.
C3_Witness ==
    /\ last.cmd = "disconnect"
    /\ WasActive
    /\ Healthy(last.pre.sock)
    /\ last.pre.task.pc = "sleep"
    /\ last.oldtask.pc = "cancelled"
    /\ last.wrote # <<>>

\* C4: disconnect() on a session that is not connected (already closed, or
\* never connected) writes nothing to IRC, changes no field of the session
\* and closes nothing, and sends the disconnected event.
C4_DisconnectIdempotent ==
    (DisconnectReturned /\ ~last.pre.connected) =>
        /\ last.wrote = <<>>
        /\ last.post.irc_socket = last.pre.irc_socket
        /\ last.post.connected = last.pre.connected
        /\ last.post.reader_task = last.pre.reader_task
        /\ last.post.nickname = last.pre.nickname
        /\ last.post.is_frontend_user = last.pre.is_frontend_user
        /\ last.oldsock = last.pre.sock
        /\ last.sent = << Event("disconnected", <<>>) >>

\* C5: once disconnect() has returned, every reader task that exists by then
\* eventually ends.
C5_ReadersEnd ==
    \A t \in 1..MaxSockets :
        (DisconnectReturned /\ t \in DOMAIN tasks)
            ~> (t \in DOMAIN tasks /\ tasks[t].pc = "done")

\* C6: a session has at most one open socket; a socket that is open is the
\* one its session refers to, and the session still exists; no socket was
\* left to the runtime to close.
C6_OneSocketClosedBySession ==
    /\ \A s \in Sessions :
          Cardinality({ k \in DOMAIN sockets :
                          sockets[k].owner = s /\ sockets[k].state = "open" }) <= 1
    /\ \A k \in DOMAIN sockets :
          /\ sockets[k].state = "open" =>
                /\ irc_socket[sockets[k].owner] = k
                /\ hpc[sockets[k].owner] # "gone"
          /\ sockets[k].state # "finalized"

\* The establish_session call of this step has the arguments of the call of
\* the step before it in the other order, and that call created the key.
AfterCreationInOtherOrder ==
    /\ klog.op = "establish_session"
    /\ klog.prev.op = "establish_session"
    /\ klog.prev.ret
    /\ klog.prev.user1 = klog.user2
    /\ klog.prev.user2 = klog.user1

\* C7: establish_session(B, A) called right after establish_session(A, B)
\* returned True returns False and leaves session_keys, the pair's key
\* included, as it was.
C7_SecondCallKeepsKey ==
    AfterCreationInOtherOrder =>
        /\ ~klog.ret
        /\ klog.after = klog.before
        /\ SessionKeyName(klog.user1, klog.user2) \in DOMAIN klog.after

\* The second call was made by the other client, for two different users.
C7_Witness ==
    /\ AfterCreationInOtherOrder
    /\ klog.user1 # klog.user2
    /\ ~klog.ret
    /\ klog.sess = "ws2"

\* C8: the name of a pair's key does not depend on the order of the pair
\* (so a pair has one entry of session_keys at most); no step changes the
\* value of a key that stays in session_keys, and a step in which a key
\* leaves session_keys is a cleanup_session call.
C8_KeysNeverReplaced ==
    [][ /\ \A u1 \in Nicknames, u2 \in Nicknames :
              SessionKeyName(u1, u2) = SessionKeyName(u2, u1)
        /\ \A name \in DOMAIN session_keys :
              IF name \in DOMAIN session_keys'
              THEN session_keys'[name] = session_keys[name]
              ELSE klog'.op = "cleanup_session" ]_vars

\* A cleanup_session call has removed a key that an earlier
\* establish_session call had created.
C8_Witness ==
    /\ klog.op = "cleanup_session"
    /\ DOMAIN klog.after # DOMAIN klog.before
    /\ session_keys = klog.after

\* The session_key events two clients hold are for the same pair.
SamePair(r1, r2) ==
    r1.got /\ r2.got /\ r1.nick = r2.with /\ r1.with = r2.nick

\* C9: an establish_session call, whichever handler makes it, finds the
\* pair's key and changes nothing, or finds none and adds exactly that one key,
\* in the one step in which it looks; and when both clients hold a
\* session_key event for the same pair, they hold the same key, the one in
\* session_keys.
C9_OneKeyPerPair ==
    /\ klog.op = "establish_session" =>
          LET name == SessionKeyName(klog.user1, klog.user2)
          IN /\ session_keys = klog.after
             /\ IF name \in DOMAIN klog.before
                THEN ~klog.ret /\ klog.after = klog.before
                ELSE /\ klog.ret
                     /\ DOMAIN klog.after = DOMAIN klog.before \cup {name}
                     /\ \A n \in DOMAIN klog.before : klog.after[n] = klog.before[n]
    /\ SamePair(received["ws1"], received["ws2"]) =>
          LET name == SessionKeyName(received["ws1"].nick, received["ws1"].with)
          IN /\ received["ws1"].key = received["ws2"].key
             /\ name \in DOMAIN session_keys
             /\ received["ws1"].key = B64Encode(session_keys[name])

\* Both clients hold the key of their pair, the second having got it from a
\* call that found the key the first one's call had created.
C9_Witness ==
    /\ SamePair(received["ws1"], received["ws2"])
    /\ klog.op = "establish_session"
    /\ ~klog.ret
    /\ klog.sess = "ws2"
    /\ last.cmd = "get_session_key"

\* get_session_key or encryption_session_ready has just called
\* establish_session for its client.
KeyRequested ==
    /\ last.cmd \in {"get_session_key", "encryption_session_ready"}
    /\ klog.op = "establish_session"
    /\ klog.sess = last.sess

\* C10: get_session_key and encryption_session_ready leave the key of the
\* pair in session_keys and send their client one session_key event with
\* that key; and when both clients hold a session_key event for the same
\* pair, with no cleanup_session for either user of the pair since, they
\* hold the same key.
C10_SameKeyForBoth ==
    /\ KeyRequested =>
          LET name == SessionKeyName(last.post.nickname, last.arg)
          IN /\ name \in DOMAIN session_keys
             /\ last.sent = << Event("session_key",
                                     [from |-> last.arg,
                                      key |-> B64Encode(session_keys[name])]) >>
    /\ SamePair(received["ws1"], received["ws2"]) =>
          received["ws1"].key = received["ws2"].key

\* The address and the channel of the server-side configuration.
ConfiguredPeer == <<IrcConfig.server, IrcConfig.port>>
ConfiguredParams == Params(IrcConfig.server, IrcConfig.port, IrcConfig.channel)

\* C17: whatever the connect payload holds, connect_to_irc is given the
\* server, port and channel of the configuration: every bridge's server, port
\* and channel are the configured ones, every socket was created for the
\* configured address, the channel joined is the configured one, and the
\* nickname and the Frontend flag are the payload's; two payloads with the
\* same nickname and flag give connect_to_irc the same arguments.
C17_TargetFromConfig ==
    /\ \A s \in Sessions : conn_params[s] = ConfiguredParams
    /\ \A k \in DOMAIN sockets : sockets[k].peer = ConfiguredPeer
    /\ (rlast.sent # <<>> /\ rlast.sent[1].type = "system") =>
          /\ rlast.wrote # <<>>
          /\ rlast.wrote[Len(rlast.wrote)].line = Line("JOIN", <<IrcConfig.channel>>)
    /\ \A d \in ConnectPayloads :
          /\ ConnectArgs(d).nickname = GetOr(d, "nickname", Str_GehUser)
          /\ ConnectArgs(d).is_frontend_user = GetOr(d, "is_frontend_user", TRUE)
    /\ \A d1 \in ConnectPayloads, d2 \in ConnectPayloads :
          (/\ GetOr(d1, "nickname", Str_GehUser) = GetOr(d2, "nickname", Str_GehUser)
           /\ GetOr(d1, "is_frontend_user", TRUE) = GetOr(d2, "is_frontend_user", TRUE))
             => ConnectArgs(d1) = ConnectArgs(d2)

\* A connect whose payload named another server, port and channel (the one
\* with the nickname "c") succeeded, and its socket is connected to the
\* configured address.
C17_Witness ==
    /\ ConnectReturned("true")
    /\ last.arg = <<"c">>
    /\ last.post.sock.peer = ConfiguredPeer
    /\ Healthy(last.post.sock)
    /\ last.post.params = ConfiguredParams

\* C18: a step that handles a message command on a bridge that is not
\* connected writes nothing to IRC, sends nothing to the client and changes
\* nothing of any bridge, socket, task or of the key store.
C18_MessageWhenNotConnected ==
    [][ (last'.cmd = "message" /\ ~connected[last'.sess]) =>
            /\ last'.wrote = <<>>
            /\ last'.sent = <<>>
            /\ UNCHANGED <<bridgeVars, storeVars, events, received>> ]_vars

\* A message command was handled on a bridge that is not connected and holds
\* a socket all the same (its connect was refused).
C18_Witness ==
    /\ last.cmd = "message"
    /\ ~last.pre.connected
    /\ last.pre.irc_socket # None
    /\ last.pre.sock.state = "open"

\* C19: a message command on a connected bridge makes one write, a PRIVMSG,
\* to the bridge's socket; when the payload is flagged is_encrypted and the
\* target is not the bridge's channel, its trailing parameter is the JSON of
\* the payload's envelope and nothing else, otherwise it is the payload's
\* content; the key store is not touched.
C19_OnePrivmsgEnvelopeOrContent ==
    (last.cmd = "message" /\ last.pre.connected) =>
        /\ Len(last.wrote) = 1
        /\ last.wrote[1].sock = last.pre.irc_socket
        /\ last.wrote[1].line.cmd = "PRIVMSG"
        /\ klog = NoOp
        /\ LET target == last.wrote[1].line.arg[1]
               text == last.wrote[1].line.arg[2]
               flagged == GetOr(last.arg, "is_encrypted", FALSE)
           IN IF flagged /\ target # last.pre.params.channel
              THEN /\ text = JsonDumps(JsonLoads(text))
                   /\ JsonLoads(text) = GetOr(last.arg, "encrypted_data", <<>>)
              ELSE text = GetOr(last.arg, "content", <<>>)

\* C20: a message command on a connected bridge writes its PRIVMSG to, and
\* echoes its message event with, the payload's target less one leading "@"
\* when it has one, and the payload's target itself when it has none.
C20_LeadingAtStripped ==
    (last.cmd = "message" /\ last.pre.connected) =>
        LET raw == GetOr(last.arg, "target", last.pre.params.channel)
            target == last.wrote[1].line.arg[1]
        IN /\ Len(last.wrote) = 1
           /\ Len(last.sent) = 1
           /\ last.sent[1].arg.target = target
           /\ IF raw # <<>> /\ raw[1] = "@"
              THEN <<"@">> \o target = raw
              ELSE target = raw

\* The target "@@c" was relayed as "@c", on a healthy socket.
C20_Witness ==
    /\ last.cmd = "message"
    /\ last.pre.connected
    /\ "target" \in DOMAIN last.arg
    /\ last.arg.target = <<"@", "@", "c">>
    /\ last.wrote[1].line.arg[1] = <<"@", "c">>
    /\ last.wrote[1].ok

\* The commands that ask for a pair's key.
KeyCommands == {"establish_session", "get_session_key", "encryption_session_ready"}

\* C11: a step that handles establish_session, get_session_key or
\* encryption_session_ready on a bridge that has no nickname or is not a
\* Frontend user's sends nothing to its client, calls nothing of the key store
\* and leaves session_keys, frontend_users and pending_sessions as they were.
C11_NoKeysUnlessFrontendUser ==
    [][ (/\ last'.cmd \in KeyCommands
         /\ ~(Truthy(nickname[last'.sess]) /\ is_frontend_user[last'.sess])) =>
            /\ last'.sent = <<>>
            /\ klog' = NoOp
            /\ UNCHANGED <<storeVars, events, received>> ]_vars

\* A key command was handled on a bridge that has a nickname and is not a
\* Frontend user's, for a counterpart that is one.
C11_Witness ==
    /\ last.cmd \in KeyCommands
    /\ Truthy(last.pre.nickname)
    /\ ~last.pre.is_frontend_user
    /\ last.arg \in frontend_users
    /\ last.sent = <<>>

\* C13: when a session that registered its nickname as a Frontend user has
\* ended (its bridge has left the registry), whether by the disconnect
\* command or by its connection closing, cleanup_session has been called for
\* the nickname: it is not in frontend_users.
C13_CleanupWhenSessionEnds ==
    \A s \in Sessions :
        (hpc[s] = "gone" /\ Truthy(nickname[s]) /\ is_frontend_user[s]) =>
            nickname[s] \notin frontend_users

\* C12: a step that calls cleanup_session(U) leaves U out of frontend_users,
\* leaves every other user in or out of frontend_users as it was, and leaves
\* no key in session_keys for a pair that contains U.
C12_CleanupRemovesUserAndKeys ==
    [][ klog'.op = "cleanup_session" =>
            LET U == klog'.user1
            IN /\ U \notin frontend_users'
               /\ frontend_users' \ {U} = frontend_users \ {U}
               /\ \A X \in Nicknames :
                     SessionKeyName(U, X) \notin DOMAIN session_keys' ]_vars

\* cleanup_session was called for a user who had a key with another user,
\* and that other user is still a Frontend user.
C12_Witness ==
    /\ klog.op = "cleanup_session"
    /\ \E X \in frontend_users :
          /\ X # klog.user1
          /\ SessionKeyName(klog.user1, X) \in DOMAIN klog.before
    /\ klog.user1 \notin frontend_users

\* C14: when the pair has a key, decrypt_message given the envelope that
\* encrypt_message has just returned for a text (a message of any characters
\* but lone surrogates, the empty one included), for the same pair in either
\* order, returns that text.
C14_RoundTrip ==
    (/\ klog.op = "decrypt_message"
     /\ klog.from_prev
     /\ {klog.user1, klog.user2} = {klog.prev.user1, klog.prev.user2}
     /\ SessionKeyName(klog.user1, klog.user2) \in DOMAIN klog.before
     /\ IsText(klog.prev.arg))
        => klog.ret = Value(klog.prev.arg)

\* A text of two characters that are not ASCII was encrypted for the pair in
\* one order and decrypted for it in the other.
C14_Witness ==
    /\ klog.op = "decrypt_message"
    /\ klog.from_prev
    /\ klog.prev.arg = <<233, 8364>>
    /\ klog.prev.user1 = klog.user2
    /\ klog.prev.user2 = klog.user1
    /\ klog.user1 # klog.user2
    /\ klog.ret = Value(<<233, 8364>>)

\* C15: a step that calls encrypt_message or decrypt_message leaves
\* session_keys, frontend_users and pending_sessions as they were, and when
\* the pair has no key the call returns None, whatever the message or the
\* envelope.
C15_NoKeyNoResult ==
    [][ klog'.op \in CryptOps =>
            /\ UNCHANGED storeVars
            /\ SessionKeyName(klog'.user1, klog'.user2) \notin DOMAIN session_keys
                  => klog'.ret = NoValue ]_vars

\* decrypt_message returned None for a pair without a key, given an envelope
\* that is the encryption of "h" under a key.
C15_Witness ==
    /\ klog.op = "decrypt_message"
    /\ klog.before = <<>>
    /\ klog.arg = [encrypted_content |-> B64Encode(CbcEncrypt(1, 1, Pad(Str_h))),
                   iv |-> B64Encode(1), is_encrypted |-> TRUE]
    /\ klog.ret = NoValue

\* Padding as the claim has it: the last byte n is in 1..16 and the last n
\* bytes are all n.
ValidPadding(p) ==
    /\ p # <<>>
    /\ LET n == p[Len(p)]
       IN /\ n >= 1
          /\ n <= BlockSize
          /\ n <= Len(p)
          /\ \A i \in (Len(p) - n + 1)..Len(p) : p[i] = n

\* The envelope fails to decrypt: the decryption comes to no padded plaintext
\* (a field is missing or is not base64, the iv or the ciphertext has no valid
\* length), or to one whose padding is not valid, or to bytes that are not
\* UTF-8 under a valid padding.
FailsToDecrypt(p) ==
    \/ p = <<>>
    \/ ~ValidPadding(p)
    \/ ~Utf8Decode(SubSeq(p, 1, Len(p) - p[Len(p)])).ok

\* C16: when the pair has a key, decrypt_message returns None for every
\* envelope that fails to decrypt, and leaves session_keys as it was.
C16_FailedDecryptReturnsNone ==
    (/\ klog.op = "decrypt_message"
     /\ SessionKeyName(klog.user1, klog.user2) \in DOMAIN klog.before
     /\ FailsToDecrypt(klog.padded))
        => /\ klog.ret = NoValue
           /\ klog.after = klog.before
           /\ session_keys = klog.before


\* C21: every message command handled while the bridge is connected sends
\* the client exactly one event, a message event whose sender is the bridge's
\* nickname and whose target is the payload's target (the channel when it has
\* none) without one leading "@": when the envelope is relayed, when the
\* content is, and when socket.send raised.
C21_OneEchoPerMessage ==
    (last.cmd = "message" /\ last.pre.connected) =>
        /\ Len(last.sent) = 1
        /\ last.sent[1].type = "message"
        /\ last.sent[1].arg.sender = last.pre.nickname
        /\ LET given == GetOr(last.arg, "target", last.pre.params.channel)
           IN last.sent[1].arg.target =
                  (IF given # <<>> /\ Head(given) = "@" THEN Tail(given) ELSE given)

\* A flagged message with an envelope for a user, handled on a connected
\* bridge whose socket has lost its connection: the write failed, the echo
\* was sent.
C21_Witness ==
    /\ last.cmd = "message"
    /\ last.pre.connected
    /\ GetOr(last.arg, "is_encrypted", FALSE)
    /\ GetOr(last.arg, "encrypted_data", <<>>) # <<>>
    /\ Len(last.wrote) = 1
    /\ ~last.wrote[1].ok
    /\ last.wrote[1].line.cmd = "PRIVMSG"
    /\ Len(last.sent) = 1
    /\ last.sent[1].arg.target = <<"c">>

\* The socket.send calls of the reader step just taken that wrote a line
\* of the given command.
ReaderWrote(cmd) == { j \in DOMAIN rlast.wrote : rlast.wrote[j].line.cmd = cmd }

\* C22: a reader step that handled a PING line with the token "srv", with
\* or without a prefix, wrote exactly one PONG in that step (so before any
\* later line is handled), the PONG carries "srv", and when the PING was the
\* only line handled no event was sent to the client.
C22_PingAnswered ==
    \A i \in DOMAIN rlast.got :
        rlast.got[i] \in { IrcLines.ping[x] : x \in DOMAIN IrcLines.ping } =>
            /\ Cardinality(ReaderWrote("PONG")) = 1
            /\ \A j \in ReaderWrote("PONG") :
                   rlast.wrote[j].line = Line("PONG", <<Str_srv>>)
            /\ Len(rlast.got) = 1 => rlast.sent = <<>>

\* The session of the reader step just taken is connected and has a socket.
ReaderOfActive ==
    /\ rlast.task # None
    /\ connected[tasks[rlast.task].sess]
    /\ irc_socket[tasks[rlast.task].sess] # None

\* C23: in a reader step of a connected session, the JOIN lines written are
\* as many as the 376 and 422 lines handled (none when the lines handled are
\* other numerics, PING or PRIVMSG lines); each JOIN names the configured
\* channel and is the last write of the step, and after it one system event
\* that carries the channel is sent to the client.
C23_JoinOnEndOfMotd ==
    LET motds == { i \in DOMAIN rlast.got :
                       rlast.got[i] \in { IrcLines.numeric[Str.n376],
                                          IrcLines.numeric[Str.n422] } }
    IN ReaderOfActive =>
        /\ Cardinality(ReaderWrote("JOIN")) = Cardinality(motds)
        /\ \A j \in ReaderWrote("JOIN") :
               /\ rlast.wrote[j].line = Line("JOIN", <<IrcConfig.channel>>)
               /\ j = Len(rlast.wrote)
        /\ motds # {} =>
               /\ Len(rlast.sent) = 1
               /\ rlast.sent[1].type = "system"
               /\ rlast.sent[1].arg.channel = IrcConfig.channel

\* A 422 line was handled by the reader of a connected session: the JOIN
\* went out on the session's socket and the event was sent.
C23_Witness ==
    /\ ReaderOfActive
    /\ rlast.got = <<IrcLines.numeric[Str.n422]>>
    /\ Len(rlast.wrote) = 1
    /\ rlast.wrote[1].ok
    /\ rlast.wrote[1].sock = irc_socket[tasks[rlast.task].sess]
    /\ rlast.wrote[1].line.cmd = "JOIN"
    /\ Len(rlast.sent) = 1

\* The message event of a reader step that handled the one PRIVMSG line
\* with the given host, target and text.
HandledPrivmsg(host, target, text) ==
    rlast.got = <<IrcLines.privmsg[host, target, text]>>

\* C24: a reader step that handled a PRIVMSG line of "b" sent the client
\* exactly one event, a message event with the sender "b", the line's
\* target, and is_private true exactly when the target is the session's
\* nickname; when the text is an envelope (a JSON object with
\* encrypted_content and iv) the event is flagged is_encrypted, its content
\* is the placeholder and the envelope is attached as it came.
C24_PrivmsgEvent ==
    \A x \in DOMAIN IrcLines.privmsg :
        HandledPrivmsg(x[1], x[2], x[3]) =>
            /\ Len(rlast.sent) = 1
            /\ rlast.sent[1].type = "message"
            /\ rlast.sent[1].arg.sender = <<"b">>
            /\ rlast.sent[1].arg.target = x[2]
            /\ rlast.sent[1].arg.is_private = (x[2] = nickname[tasks[rlast.task].sess])
            /\ rlast.wrote = <<>>
            /\ x[3] = <<"{", "encrypted_content", "iv", "}">> =>
                   /\ rlast.sent[1].arg.is_encrypted
                   /\ rlast.sent[1].arg.content = Str.Encrypted
                   /\ rlast.sent[1].arg.encrypted_data = Value(<<"encrypted_content", "iv">>)

\* C25: for a line ":b!u@host PRIVMSG target :text" whose text is no
\* envelope, the event made of what parse_privmsg returns (for the prefix and
\* the params parse_irc_line returns) has the sender "b", the target, and as
\* content the whole text.
C25_ParsePrivmsg ==
    \A x \in DOMAIN IrcLines.privmsg :
        (HandledPrivmsg(x[1], x[2], x[3]) /\ x[3] # <<"{", "encrypted_content", "iv", "}">>) =>
            /\ Len(rlast.sent) = 1
            /\ rlast.sent[1].arg.sender = <<"b">>
            /\ rlast.sent[1].arg.target = x[2]
            /\ rlast.sent[1].arg.content = x[3]

\* C26: a step in which dispatch is called with a payload whose type is one
\* of the six registered names runs the handler of that name (the command
\* the step records is that handler's, for the caller's session); a step in
\* which it is called with another name ("Connect", "disconnect ", an
\* unknown or empty name) or with no type returns False, sends nothing,
\* writes nothing and leaves every bridge, socket, task and the key store as
\* they were.
C26_DispatchByExactName ==
    [][ \A d \in DispatchPayloads : \A o \in {"ok", "nosock"} :
            Dispatch(TheBridge, d, o) =>
                IF "type" \in DOMAIN d /\ d.type \in
                       {"connect", "message", "establish_session", "get_session_key",
                        "encryption_session_ready", "disconnect"}
                THEN /\ last'.cmd = d.type
                     /\ last'.sess = TheBridge
                ELSE /\ last'.cmd = "dispatch"
                     /\ last'.ret = "false"
                     /\ last'.sent = <<>>
                     /\ last'.wrote = <<>>
                     /\ klog' = NoOp
                     /\ UNCHANGED <<bridgeVars, storeVars, events, received>> ]_vars

\* dispatch returned False for the name "Connect" on a connected bridge of a
\* Frontend user.
C26_Witness ==
    /\ last.cmd = "dispatch"
    /\ last.ret = "false"
    /\ "type" \in DOMAIN last.arg
    /\ last.arg.type = "Connect"
    /\ last.pre.connected
    /\ last.pre.nickname \in frontend_users
    /\ last.post = last.pre

\* C27: the registry holds a websocket's bridge exactly while the
\* websocket's connection is open, that is from its accept until its
\* endpoint has ended (an endpoint that has not begun, has finished its
\* finally block or has ended with an exception has no open connection);
\* and a bridge that was removed has been disconnected.
C27_RegistryMatchesOpenConnections ==
    \A s \in Sessions :
        /\ s \in bridges <=> hpc[s] \in {"idle", "conn_setup", "ready_sent", "closing"}
        /\ hpc[s] = "gone" => (~connected[s] /\ irc_socket[s] = None)

\* C28: a step in which a read loop ends on a connected bridge whose socket
\* has lost its connection sends the client nothing, writes nothing and
\* leaves connected true and the bridge's socket reference, the sockets and
\* the other tasks as they were (no new socket, no new task); and connected
\* and the socket reference of a bridge change in no step but one that
\* handles connect, disconnect or the closing of the connection.
C28_ReadLoopEndsSilently ==
    [][ /\ \A t \in DOMAIN tasks :
              LET s == tasks[t].sess
              IN (/\ tasks[t].pc = "sleep"
                  /\ tasks'[t].pc = "done"
                  /\ connected[s]
                  /\ irc_socket[s] # None
                  /\ ~Healthy(sockets[irc_socket[s]])) =>
                     /\ connected'[s]
                     /\ irc_socket'[s] = irc_socket[s]
                     /\ rlast' = NoRead
                     /\ last' = NoCmd
                     /\ Len(tasks') = Len(tasks)
                     /\ UNCHANGED <<sockets, events, reader_task, bridges, hpc>>
        /\ (connected' # connected \/ irc_socket' # irc_socket) =>
               last'.cmd \in {"connect", "disconnect", "close"} ]_vars

\* The read loop of a connected bridge has ended while the bridge is
\* connected and holds its socket, whose connection is lost.
C28_Witness ==
    \E s \in Sessions :
        /\ connected[s]
        /\ irc_socket[s] # None
        /\ sockets[irc_socket[s]].broken
        /\ reader_task[s] # None
        /\ tasks[reader_task[s]].pc = "done"
        /\ last = NoCmd

\* The read-loop tasks of session s that are running: started, not
\* cancelled and not ended.
RunningReaders(s) ==
    { t \in DOMAIN tasks : tasks[t].sess = s /\ tasks[t].pc \in {"check", "sleep", "lines"} }

\* C29: a session has at most one running read-loop task, and it has one
\* only while its bridge is connected.
C29_OneReaderWhileActive ==
    \A s \in Sessions :
        /\ Cardinality(RunningReaders(s)) <= 1
        /\ RunningReaders(s) # {} => connected[s]

\* C30: in the step that removes a session's entry from the registry every
\* read-loop task of the session has ended, and a read loop that takes a
\* step while its bridge is disconnected sends the client nothing and
\* writes nothing to IRC.
C30_ReaderEndedBeforeDestroyed ==
    [][ /\ \A s \in bridges \ bridges' :
              \A t \in DOMAIN tasks : tasks[t].sess = s => tasks[t].pc = "done"
        /\ (rlast'.task # None /\ ~connected[tasks[rlast'.task].sess]) =>
               (rlast'.sent = <<>> /\ rlast'.wrote = <<>>) ]_vars

\* C31: in the step after a session's disconnect() has returned, and in every
\* step once its connection's entry has left the registry, the session is
\* not connected, has no socket, and no socket and no read-loop task is
\* created.
C31_ClosedIsTerminal ==
    [][ \A s \in Sessions :
            ((last.sess = s /\ last.cmd \in {"disconnect", "close"}) \/ hpc[s] = "gone") =>
                /\ ~connected'[s]
                /\ irc_socket'[s] = None
                /\ (last'.sess = s => (Len(sockets') = Len(sockets) /\ Len(tasks') = Len(tasks))) ]_vars

\* The non-empty lines of a text that are followed by "\r\n", in order.
CompleteLines(text) ==
    LET lines(parts) == SelectSeq(SubSeq(parts, 1, Len(parts) - 1), LAMBDA l : l # <<>>)
    IN Apply(lines, Split(text, Str.CRLF, -1))

\* What follows the last "\r\n" of a text.
Trailing(text) ==
    LET last_part(parts) == parts[Len(parts)]
    IN Apply(last_part, Split(text, Str.CRLF, -1))

\* C32: in a step of a read loop, the bytes its buffer stood for and the
\* bytes it received, decoded as one stream, hold as complete non-empty
\* lines exactly the lines the step handed to line handling followed by
\* those still in the buffer, and the stream's incomplete last line is what
\* ends the buffer; the buffer keeps a complete line only while the loop is
\* suspended in the handling of a line.
C32_LinesOfStream ==
    [][ rlast'.task # None =>
            LET t == rlast'.task
                whole == DecodeIgnore(tasks[t].raw \o rlast'.data)
            IN /\ CompleteLines(whole) = rlast'.got \o CompleteLines(tasks'[t].buffer)
               /\ Trailing(whole) = Trailing(tasks'[t].buffer)
               /\ tasks'[t].pc # "lines" => Find(tasks'[t].buffer, Str.CRLF) = 0 ]_vars

\* C33: a step in which a session's connect command begins and returns False
\* (the IRC connection failed) leaves the key store and the bridge fields of
\* every other session as they were.
C33_FailureIsolated ==
    [][ \A s \in Sessions :
            (/\ hpc[s] = "idle"
             /\ last'.sess = s
             /\ last'.cmd = "connect"
             /\ last'.ret = "false") =>
                /\ UNCHANGED storeVars
                /\ \A c \in Sessions \ {s} :
                       UNCHANGED <<irc_socket[c], connected[c], reader_task[c], nickname[c],
                                   is_frontend_user[c], conn_params[c], hpc[c]>> ]_vars

\* pending_sessions.get(user, set())
PendingOf(p, user) == IF user \in DOMAIN p THEN p[user] ELSE {}

\* What C34 says of a connect: a connect of a Frontend user N that finds
\* Frontend users without a key with N sends N's client one
\* setup_encryption event that lists exactly them, and when the connect
\* returns each of them is pending for N and N is pending for each of them.
IntroducedOnConnect(s) ==
    /\ (hpc[s] = "idle" /\ hpc'[s] = "conn_setup") =>
           events'[s] =
               <<Event("setup_encryption",
                       { u \in frontend_users' \ {nickname'[s]} :
                           SessionKeyName(nickname'[s], u) \notin DOMAIN session_keys })>>
    /\ (hpc[s] = "conn_setup" /\ hpc'[s] = "idle") =>
           /\ last'.sent[1] = events[s][1]
           /\ \A i \in 2..Len(last'.sent) : last'.sent[i].type # "setup_encryption"
           /\ \A u \in events[s][1].arg :
                  /\ u \in PendingOf(pending_sessions', nickname[s])
                  /\ nickname[s] \in PendingOf(pending_sessions', u)

\* C34 as claimed: a connect introduces the users as IntroducedOnConnect
\* says, and when the encryption_session_ready of a client V for U has
\* marked the session confirmed, V is not in U's pending set.
C34_RemovedFromCounterpart ==
    [][ \A s \in Sessions :
            /\ IntroducedOnConnect(s)
            /\ (hpc[s] = "ready_sent" /\ hpc'[s] = "idle") =>
                   nickname[s] \notin PendingOf(pending_sessions', last'.arg) ]_vars

\* C34 as amended: a connect introduces the users as IntroducedOnConnect
\* says, and when the encryption_session_ready of a client V for U has
\* marked the session confirmed, U is not in V's pending set, and every
\* other user's pending set is as it was.
C34_RemovedFromOwn ==
    [][ \A s \in Sessions :
            /\ IntroducedOnConnect(s)
            /\ (hpc[s] = "ready_sent" /\ hpc'[s] = "idle") =>
                   /\ last'.arg \notin PendingOf(pending_sessions', nickname[s])
                   /\ \A u \in Nicknames \ {nickname[s]} :
                          PendingOf(pending_sessions', u) = PendingOf(pending_sessions, u) ]_vars

\* A client has confirmed its session with a user it was introduced to: it
\* is still in that user's pending set, and the user is no longer in its own.
C34_Witness ==
    \E s \in Sessions :
        /\ last.sess = s
        /\ last.cmd = "encryption_session_ready"
        /\ last.ret = "none"
        /\ last.sent # <<>>
        /\ nickname[s] \in PendingOf(pending_sessions, last.arg)
        /\ last.arg \notin PendingOf(pending_sessions, nickname[s])

\* C35: when an establish_session follows another, the two calls use the
\* same name in session_keys only if they are for the same unordered pair
\* of nicknames, and the second call reports that the key existed (False)
\* for a key the first has just created only if it is for the same pair.
C35_PairKeyInjective ==
    (/\ klog.op = "establish_session"
     /\ klog.prev.op = "establish_session"
     /\ SessionKeyName(klog.user1, klog.user2)
            = SessionKeyName(klog.prev.user1, klog.prev.user2)) =>
        {klog.user1, klog.user2} = {klog.prev.user1, klog.prev.user2}

\* C36: a cleanup_session(U) that follows the establish_session which
\* created the key of a pair without U leaves that key in session_keys,
\* with its value.
C36_CleanupKeepsOtherPairs ==
    [][ (/\ klog.op = "establish_session"
         /\ klog.ret
         /\ klog'.op = "cleanup_session"
         /\ klog'.user1 \notin {klog.user1, klog.user2}) =>
            /\ SessionKeyName(klog.user1, klog.user2) \in DOMAIN session_keys'
            /\ session_keys'[SessionKeyName(klog.user1, klog.user2)]
                   = session_keys[SessionKeyName(klog.user1, klog.user2)] ]_vars

\* C37: every name in session_keys is the name of a pair of two Frontend
\* users; an establish_session that has just created a key was called for
\* two Frontend users; and a session_key event that has just been sent is
\* for the sender's nickname and a counterpart that are both Frontend users.
C37_KeysOnlyForFrontendUsers ==
    /\ \A name \in DOMAIN session_keys :
           \E u, v \in frontend_users : SessionKeyName(u, v) = name
    /\ (klog.op = "establish_session" /\ klog.ret) =>
           {klog.user1, klog.user2} \subseteq frontend_users
    /\ (last.cmd = "get_session_key" /\ last.sent # <<>>) =>
           {nickname[last.sess], last.arg} \subseteq frontend_users

\* C38: a client that is sent, in a session_key event, the key the
\* establish_session of the step before has created has the nickname of
\* one of the two users that key was created for.
C38_KeyOnlyToItsPair ==
    (/\ last.cmd = "get_session_key"
     /\ last.sent # <<>>
     /\ klog.op = "establish_session"
     /\ klog.prev.op = "establish_session"
     /\ klog.prev.ret
     /\ SessionKeyName(klog.user1, klog.user2)
            = SessionKeyName(klog.prev.user1, klog.prev.user2)) =>
        nickname[last.sess] \in {klog.prev.user1, klog.prev.user2}

\* C39: the nickname of every connected bridge that connected as a Frontend
\* user is in frontend_users.
C39_ActiveFrontendUserIsKnown ==
    \A s \in Sessions :
        (connected[s] /\ is_frontend_user[s]) => nickname[s] \in frontend_users

\* C40: a message command whose payload is flagged is_encrypted and has a
\* content writes to IRC no line whose trailing parameter is that content.
C40_FlaggedContentNeverWritten ==
    (/\ last.cmd = "message"
     /\ GetOr(last.arg, "is_encrypted", FALSE)
     /\ GetOr(last.arg, "content", <<>>) # <<>>) =>
        \A i \in DOMAIN last.wrote :
            last.wrote[i].line.arg[Len(last.wrote[i].line.arg)]
                # GetOr(last.arg, "content", <<>>)
====
